---- MODULE Spec2Model ----
(***************************************************************************)
(* A state-machine model of citizen-scripting-v8/src/V8ScriptRuntime.cpp:  *)
(* the environment scopes (V8PushEnvironment and the node.js scope         *)
(* handler's frames), the routine table of a V8ScriptRuntime, the          *)
(* function-reference registry with its deferred-release queue, and the    *)
(* resource manager's per-tick handlers.                                   *)
(*                                                                         *)
(* Threads run host code; a thread's C++ call stack is stack[t], one       *)
(* record per activation that the model follows (a scope object and the    *)
(* body it guards).  Guest (script) code runs in the topmost frame while   *)
(* that frame is in phase "run"; from there the guest can call back into   *)
(* the bridge, which is how registrations, function references and nested  *)
(* dispatch happen.                                                        *)
(***************************************************************************)
EXTENDS Integers, Sequences, FiniteSets, TLC

\* ------------------------------------------------------------------ bounds
\* The deepest nesting of activations on one thread.
MaxDepth == 3
\* The deepest nesting of garbage-collection passes (prologue callbacks).
MaxGc == 1
\* How many RefAndPersistent entries are ever allocated.
MaxRefs == 2
\* The deepest nesting of dispatch operations whose outcomes are followed.
MaxSurfaceDepth == 2

\* -------------------------------------------------------------- universes
Threads == {"t1", "t2"}
\* The thread that runs ResourceManager::OnTick.
TickThread == "t1"
NoThread == "nothread"
Runtimes == {"r1", "r2"}
NoRuntime == "noruntime"
\* A node::Environment that g_envRuntimes does not map (or maps to null).
UnmappedEnv == "noenv"
Envs == Runtimes \cup {UnmappedEnv}
Callables == {"f1", "f2"}
Unset == "unset"
\* RefAndPersistent entries are numbered from 1; a frame's ref field is 0 when it has none.
Refs == 1..MaxRefs

\* The seven routine slots of a runtime (m_tickRoutine .. m_unhandledPromiseRejectionRoutine).
Kinds == {"tick", "event", "callRef", "duplicateRef", "deleteRef", "stackTrace",
          "unhandledRejection"}
\* The dispatch operations that invoke a routine slot.
DispatchOps == {"Tick", "TriggerEvent", "CallRef", "DuplicateRef", "RemoveRef", "WalkStack"}

KindOf(op) ==
    CASE op = "Tick" -> "tick"
      [] op = "TriggerEvent" -> "event"
      [] op = "CallRef" -> "callRef"
      [] op = "DuplicateRef" -> "duplicateRef"
      [] op = "RemoveRef" -> "deleteRef"
      [] op = "WalkStack" -> "stackTrace"
      [] OTHER -> "unhandledRejection"

VARIABLES
    build,              \* "server": IS_FXSERVER and V8_NODE with UseNode(); "client": neither
    ctx,                \* per runtime: "new" (constructed), "ready" (Create made m_context), "destroyed"
    routine,            \* per runtime and kind: the callable held by the slot, or Unset
    firstReg,           \* history: the callable of the first registration of each slot
    lastReg,            \* history: the latest registration call (runtime, kind, callable)
    stack,              \* per thread: the activations of the bridge, innermost last
    g_currentV8Runtime, \* per thread (thread_local)
    lockOwner,          \* the thread holding the isolate's v8::Locker, or NoThread
    g_isV8InGc,         \* the process-wide in-GC counter
    gcMark,             \* per open GC pass: the thread it runs on and that thread's stack depth
    est,                \* per RefAndPersistent: "none" (not allocated), "live", "freed" (deleted by the
                        \* drain), "discarded" (deleted by MakeFunctionReference), "doublefree"
    handle,             \* per RefAndPersistent: its Persistent<Function>: "empty" or "weak"
    reach,              \* per RefAndPersistent: whether guest code still holds the wrapper function
    g_cleanUpFuncRefs,  \* the deferred-release queue
    tickIdx,            \* how many OnTick handlers of the current tick have run (0: no tick in progress)
    tickHasLock,        \* whether the tick's static v8::Locker took the lock (has_lock_)
    pumped,             \* whether this tick has pumped the engine's message loop
    draining,           \* whether the drain handler's loop is between two try_pop calls
    ret,                \* what the latest bridge operation to return gave its caller
    boot,               \* per runtime: the system scripts Create has started, and Create's result
    refStr,             \* per RefAndPersistent: the string its fx::FunctionRef holds
    m_stringValues,     \* per runtime: slot -> the string its unique_ptr owns (0: none)
    m_curStringValue,   \* per runtime: the slot the next string goes to
    acquired            \* history, per runtime: how many strings AssignStringValue has taken

vars == <<build, ctx, routine, firstReg, lastReg, stack, g_currentV8Runtime, lockOwner, g_isV8InGc,
          gcMark, est, handle, reach, g_cleanUpFuncRefs, tickIdx, tickHasLock, pumped, draining,
          ret, boot, refStr, m_stringValues, m_curStringValue, acquired>>

scopeVars == <<stack, g_currentV8Runtime, lockOwner>>
gcVars == <<g_isV8InGc, gcMark>>
refVars == <<est, handle, reach, g_cleanUpFuncRefs>>
tickVars == <<tickIdx, tickHasLock, pumped, draining>>
rtVars == <<build, ctx, routine, firstReg, lastReg>>
arenaVars == <<m_stringValues, m_curStringValue, acquired>>
obsVars == <<ret, boot, refStr, arenaVars>>

\* ------------------------------------------------------------------ values
\* A script value: its type, for a number its value n * 2^p, for a string its
\* units, for an ArrayBufferView its buffer and the window [off, off + len) on it.
Value(type, n, p, buf, off, len) ==
    [type |-> type, n |-> n, p |-> p, buf |-> buf, off |-> off, len |-> len]
NoValue == Value("none", 0, 0, <<>>, 0, 0)

\* How the body of an activation ended ("none": it has not), and with what.
Outcome(how, val, text) == [how |-> how, val |-> val, text |-> text]
NoOutcome == Outcome("none", NoValue, "")

\* Script values: an ArrayBufferView of len bytes at offset off of a buffer, the
\* number n * 2^p (n odd, or 0 with p = 0), NaN, an infinity of sign n, undefined.
View(buf, off, len) == Value("view", 0, 0, buf, off, len)
Number(n, p) == Value("number", n, p, <<>>, 0, 0)
NaN == Value("nan", 0, 0, <<>>, 0, 0)
Infinity(sign) == Value("inf", sign, 0, <<>>, 0, 0)
Undefined == Value("undefined", 0, 0, <<>>, 0, 0)

\* An IScriptBuffer holding bytes, the null buffer pointer, a 32-bit integer.
Buffer(bytes) == Value("buffer", 0, 0, bytes, 0, Len(bytes))
NullBuffer == Value("null", 0, 0, <<>>, 0, 0)
Int32(n) == Value("number", n, 0, <<>>, 0, 0)

\* No operation has returned yet; Create has loaded nothing yet.
NoReturn == [op |-> "none", rt |-> NoRuntime, cls |-> "none", hr |-> "none", raised |-> FALSE,
             out |-> NoValue, traces |-> 0, frames |-> <<>>, res |-> NoOutcome,
             error |-> "none", call |-> <<>>]
NoBoot == [log |-> <<>>, hr |-> "none"]

\* A string as the char* it is handed over as: the bytes before the first zero byte.
RECURSIVE CStr(_)
CStr(b) == IF b = <<>> \/ b[1] = 0 THEN <<>> ELSE <<b[1]>> \o CStr(Tail(b))

\* The argument of makeFunctionReference (a script string in UTF-8, a
\* Uint8Array, anything else) and the std::string made of it: a string goes
\* through the char* of String::Utf8Value, an array is copied with its length.
Id(kind, bytes) == [kind |-> kind, bytes |-> bytes]
RefString(id) ==
    CASE id.kind = "string" -> CStr(id.bytes)
      [] id.kind = "bytes" -> id.bytes
      [] OTHER -> <<>>
\* The reference "foo".
Foo == Id("string", <<102, 111, 111>>)
\* An entry never made: arg is what the script passed, ref is data->ref.
NoRef == [arg |-> Id("none", <<>>), ref |-> <<>>]

\* ------------------------------------------------------------------ frames
\* cls is the scope class of the activation:
\*   "V8Push"        V8PushEnvironment<v8::Locker, v8::Isolate::Scope>
\*   "V8PushFake"    V8PushEnvironment<FakeScope, FakeScope> (Tick, already locked)
\*   "Lite"          V8LitePushEnvironment
\*   "LiteNoRuntime" V8LiteNoRuntimePushEnvironment
\*   "Noop"          V8NoopPushEnvironment
\*   "PushEnv"       fx::PushEnvironment alone (Destroy without V8_NODE)
\*   "None"          no scope object at all (EmitWarning, the trampoline, a promise rejection)
Frame(cls, op, rt, hasLock, last, fn, ref) ==
    [cls |-> cls, op |-> op, rt |-> rt, hasLock |-> hasLock, last |-> last,
     ph |-> "run", did |-> FALSE, fn |-> fn, ref |-> ref, res |-> NoOutcome, call |-> <<>>]

NodeClasses == {"Lite", "LiteNoRuntime", "Noop"}
\* (LocksOnlyLite: the full scope without its Locker.)
LocksOnlyLite(cls) == cls \in {"Lite", "LiteNoRuntime"}
\* The classes whose constructor takes a v8::Locker.
Locks(cls) == cls \in {"V8Push", "Lite", "LiteNoRuntime"}
\* The classes that save and set g_currentV8Runtime and hold an FxMicrotaskScope.
IsEnvScope(cls) == cls \in {"V8Push", "V8PushFake", "Lite"}

Depth(t) == Len(stack[t])
Top(t) == stack[t][Len(stack[t])]
Pop(s) == SubSeq(s, 1, Len(s) - 1)

\* The thread is inside a GC pass proper (between prologue and epilogue, with no
\* activation entered from inside the pass still open).
InGcProper(t) ==
    /\ gcMark # <<>>
    /\ gcMark[Len(gcMark)].t = t
    /\ gcMark[Len(gcMark)].depth = Depth(t)

\* Guest code (or a native callback it made) is executing in the top frame of t.
Running(t) ==
    /\ stack[t] # <<>>
    /\ Top(t).ph = "run"
    /\ Top(t).res.how \in {"none", "loaded"}
    /\ g_isV8InGc = 0

\* The host is at its top level on t: no activation, and not inside the drain loop.
AtTopLevel(t) ==
    /\ stack[t] = <<>>
    /\ (t = TickThread => ~draining)

\* A host call can be made here: from the top level, or from a native callback
\* that guest code made.
HostCanCall(t) ==
    /\ Depth(t) < MaxDepth
    /\ (AtTopLevel(t) \/ Running(t))

\* The runtime whose guest code is executing in the top frame.
GuestRuntime(t) == Top(t).rt

\* Guest code of a live runtime is executing in the top frame (a native such as
\* the trampoline or ReadFileData is host code).
GuestActive(t) ==
    /\ Running(t)
    /\ Top(t).op \notin {"ReadFile", "InvokeRef", "InvokeNative"}
    /\ Top(t).cls # "PushEnv"
    /\ Top(t).rt \in Runtimes
    /\ ctx[Top(t).rt] = "ready"

\* ------------------------------------------------------------- v8::Locker
\* A Locker blocks until the isolate is free, unless this thread holds it already.
LockerNonReentrant(t) == lockOwner = NoThread
LockerCanEnter(t) == lockOwner \in {NoThread, t}

\* has_lock_: only the Locker that took the lock gives it up in its destructor.
LockerTopLevel(t) == lockOwner # t

IsLocked(t) == lockOwner = t

\* ------------------------------------------------------------ RunMicrotasks
\* V8ScriptRuntime::RunMicrotasks: whether a checkpoint is performed.  m_taskQueue
\* is made by Create and never reset.
RunMicrotasksIgnoringGc(r) == ctx[r] # "new"
RunMicrotasks(r) == ctx[r] # "new" /\ g_isV8InGc = 0

\* -------------------------------------------------------------- scope entry
\* The constructor of a scope object of class cls for runtime r, and the push of
\* the activation it guards.
PushFrame(t, cls, op, r, fn, ref) ==
    /\ Locks(cls) => LockerCanEnter(t)
    /\ stack' = [stack EXCEPT ![t] =
            Append(@, Frame(cls, op, r, Locks(cls) /\ LockerTopLevel(t),
                            g_currentV8Runtime[t], fn, ref))]
    /\ lockOwner' = IF Locks(cls) THEN t ELSE lockOwner
    /\ g_currentV8Runtime' = IF IsEnvScope(cls)
                               THEN [g_currentV8Runtime EXCEPT ![t] = r]
                               ELSE g_currentV8Runtime

\* Tick's choice of scope: with IS_FXSERVER a real scope unless the isolate is
\* locked by this thread; the already-locked variant otherwise.
TickScopeClass(t) ==
    IF build = "server" /\ ~IsLocked(t) THEN "V8Push" ELSE "V8PushFake"

\* Tick, TriggerEvent, CallRef, DuplicateRef, RemoveRef, WalkStack with the slot
\* set: enter the scope and invoke the routine.  (With the slot unset the
\* operation returns at once and changes nothing.)  Without IS_FXSERVER Tick is
\* only ever called from the resource manager's tick, which holds the lock.
EnterDispatch(t, r, op) ==
    /\ HostCanCall(t)
    /\ ctx[r] = "ready"
    /\ routine[r][KindOf(op)] # Unset
    /\ LET cls == IF op = "Tick" THEN TickScopeClass(t) ELSE "V8Push"
       IN /\ cls = "V8PushFake" => IsLocked(t)
          /\ PushFrame(t, cls, op, r, routine[r][KindOf(op)], 0)
    /\ UNCHANGED <<rtVars, gcVars, refVars, tickVars, obsVars>>

\* What the out-parameter of a dispatch operation holds before the slot is
\* tested: DuplicateRef stores -1, CallRef stores nullptr.
UnsetOutNothing(op) == NoValue
UnsetOut(op) ==
    CASE op = "DuplicateRef" -> Int32(-1)
      [] op = "CallRef" -> NullBuffer
      [] OTHER -> NoValue

\* A dispatch operation called with its slot unset: the if is skipped and
\* FX_S_OK returned.
DispatchUnset(t, r, op) ==
    /\ AtTopLevel(t) \/ Running(t)
    /\ routine[r][KindOf(op)] = Unset
    /\ ret' = [NoReturn EXCEPT !.op = op, !.rt = r, !.hr = "FX_S_OK", !.out = UnsetOut(op)]
    /\ UNCHANGED <<rtVars, scopeVars, gcVars, refVars, tickVars, boot, refStr, arenaVars>>

\* EmitWarning: no scope object; it looks up console.warn in m_context and calls
\* it.  It creates handles, so the caller is inside a scope already.
EmitWarning(t, r) ==
    /\ Depth(t) < MaxDepth
    /\ Running(t)
    /\ ctx[r] = "ready"
    /\ PushFrame(t, "None", "EmitWarning", r, "warn", 0)
    /\ UNCHANGED <<rtVars, gcVars, refVars, tickVars, obsVars>>

\* RunFileInternal (LoadFile, LoadSystemFile): the script runs inside a scope.
RunFile(t, r) ==
    /\ HostCanCall(t)
    /\ ctx[r] = "ready"
    /\ PushFrame(t, "V8Push", "RunFile", r, "script", 0)
    /\ UNCHANGED <<rtVars, gcVars, refVars, tickVars, obsVars>>

\* ReadFileData: a native called by guest code that pushes a scope of its own
\* for the runtime it was registered with.
ReadFileData(t) ==
    /\ Depth(t) < MaxDepth
    /\ GuestActive(t)
    /\ PushFrame(t, "V8Push", "ReadFile", GuestRuntime(t), "none", 0)
    /\ UNCHANGED <<rtVars, gcVars, refVars, tickVars, obsVars>>

\* ---------------------------------------------- the system scripts of Create
\* g_platformScripts, and before them the natives script Create picks for the
\* resource's manifest version (citizen:/scripting/v8/<nativesBuild>).
g_platformScripts == <<"console.js", "timer.js", "msgpack.js", "eventemitter2.js", "main.js">>
\* (SystemScriptsNativesLast: a Create that ran the natives script after the loop.)
SystemScriptsNativesLast == g_platformScripts \o <<"natives">>
SystemScripts == <<"natives">> \o g_platformScripts

\* What the load function of RunFileInternal can do with a system script: the
\* host fails to open or read it (with the host's code), it fails to compile,
\* or it is compiled and run.
LoadOutcome(load) ==
    CASE load = "openFails" -> Outcome("openFails", NoValue, "FX_E_NOTFOUND")
      [] load = "compileFails" -> Outcome("compileFails", NoValue, "SyntaxError")
      [] OTHER -> Outcome("loaded", NoValue, "")

\* The next LoadSystemFile call of Create(r): Create has made the context, no
\* earlier script failed, and the call before has returned.  RunFileInternal
\* enters the scope first and then loads.
LoadSystemFile(t, r) ==
    /\ HostCanCall(t)
    /\ stack[t] # <<>> => ~(Top(t).op = "LoadSystemFile" /\ Top(t).res = NoOutcome)
    /\ ctx[r] = "ready"
    /\ boot[r].hr = "none"
    /\ Len(boot[r].log) < Len(SystemScripts)
    /\ \A u \in Threads : \A i \in 1..Len(stack[u]) :
            ~(stack[u][i].rt = r /\ stack[u][i].op = "LoadSystemFile")
    /\ LET script == SystemScripts[Len(boot[r].log) + 1]
       IN /\ PushFrame(t, "V8Push", "LoadSystemFile", r, script, 0)
          /\ boot' = [boot EXCEPT ![r].log = Append(@, script)]
    /\ UNCHANGED <<rtVars, gcVars, refVars, tickVars, ret, refStr, arenaVars>>

\* The load function of RunFileInternal returns: with a failure, or with the
\* compiled script, which then runs (a script that fails to load never runs).
ScriptLoads(t, load) ==
    /\ Running(t)
    /\ Top(t).op = "LoadSystemFile"
    /\ Top(t).res = NoOutcome
    /\ stack' = [stack EXCEPT ![t][Depth(t)].res = LoadOutcome(load)]
    /\ UNCHANGED <<g_currentV8Runtime, lockOwner, rtVars, gcVars, refVars, tickVars, obsVars>>

\* script->Run of RunFileInternal ends: the script's top level returns or throws.
ScriptRuns(t, res) ==
    /\ Running(t)
    /\ Top(t).op = "LoadSystemFile"
    /\ Top(t).res.how = "loaded"
    /\ stack' = [stack EXCEPT ![t][Depth(t)].res = res]
    /\ UNCHANGED <<g_currentV8Runtime, lockOwner, rtVars, gcVars, refVars, tickVars, obsVars>>

\* The result_t of RunFileInternal: the load function's failure, FX_E_INVALIDARG
\* when the script does not compile or throws, FX_S_OK otherwise.
RunFileInternal(res) ==
    CASE res.how = "openFails" -> res.text
      [] res.how \in {"compileFails", "throws"} -> "FX_E_INVALIDARG"
      [] OTHER -> "FX_S_OK"

\* Create after a LoadSystemFile call returned hr: a failure is returned at
\* once; after the last script Create returns FX_S_OK.
CreateAfterLoad(b, hr) ==
    IF hr # "FX_S_OK" THEN [b EXCEPT !.hr = hr]
    ELSE IF Len(b.log) = Len(SystemScripts) THEN [b EXCEPT !.hr = "FX_S_OK"]
    ELSE b

\* ------------------------------------------------- what an operation returns
\* ArrayBufferView::CopyContents: the bytes of the view's window on its buffer.
ViewBytes(v) == SubSeq(v.buf, v.off + 1, v.off + v.len)

\* The number of binary digits of the magnitude of a small integer.
Bits(n) ==
    LET m == IF n < 0 THEN 0 - n ELSE n
    IN IF m = 0 THEN 0 ELSE IF m = 1 THEN 1 ELSE IF m < 4 THEN 2 ELSE IF m < 8 THEN 3 ELSE 4
\* Value::IsInt32 of the number n * 2^p (n odd or 0): it is whole and lies in
\* [-2^31, 2^31 - 1].
IsInt32(v) ==
    /\ v.type = "number"
    /\ v.n = 0 \/ v.p >= 0
    /\ \/ v.n = 0
       \/ Bits(v.n) + v.p <= 31
       \/ (v.n = -1 /\ v.p = 31)

\* The TryCatch of a routine wrapper, of LoadFileInternal and of RunFileInternal:
\* how many reports ScriptTrace sends for an outcome.
\* (TracesNone: a wrapper that swallowed the exception unreported.)
TracesNone(res) == 0
Traces(res) == IF res.how \in {"throws", "compileFails"} THEN 1 ELSE 0

\* A call-ref routine that copied the view's whole backing buffer.
CallRefRoutineWholeBuffer(res) ==
    IF res.how = "returns" /\ res.val.type = "view" THEN Buffer(res.val.buf) ELSE NullBuffer
\* The call-ref routine (V8_SetCallRefFunction): the IScriptBuffer it returns.
CallRefRoutine(res) ==
    IF res.how = "returns" /\ res.val.type = "view" THEN Buffer(ViewBytes(res.val)) ELSE NullBuffer

\* A duplicate-ref routine that took any number for a 32-bit integer.
DuplicateRefRoutineAnyNumber(res) ==
    IF res.how = "returns" /\ res.val.type = "number" THEN res.val ELSE Int32(-1)
\* The duplicate-ref routine (V8_SetDuplicateRefFunction): the int32_t it returns.
DuplicateRefRoutine(res) ==
    IF res.how = "returns" /\ IsInt32(res.val) THEN res.val ELSE Int32(-1)

\* The stack-trace routine (V8_SetStackTraceRoutine): the blob it leaves in *blob
\* (null when the callable threw or gave no ArrayBufferView).
StackTraceRoutine(res) ==
    IF res.how = "returns" /\ res.val.type = "view" THEN Buffer(ViewBytes(res.val)) ELSE NullBuffer

\* msgpack::unpack on a payload of one-byte objects: a byte below 128 is a
\* positive fixint, a byte 144 + c the header of an array of c objects.  The
\* position after the object that starts at i, or 0 when the bytes run out
\* (msgpack::insufficient_bytes).
RECURSIVE ObjEnd(_, _), ObjsEnd(_, _, _)
ObjEnd(b, i) ==
    IF i > Len(b) THEN 0
    ELSE IF b[i] < 128 THEN i + 1
    ELSE ObjsEnd(b, i + 1, b[i] - 144)
ObjsEnd(b, i, c) ==
    IF c = 0 THEN i
    ELSE IF ObjEnd(b, i) = 0 THEN 0
    ELSE ObjsEnd(b, ObjEnd(b, i), c - 1)

\* up.get().as<std::vector<msgpack::object>>() followed by msgpack::pack of each
\* element: the elements of the array that starts at i, each as its bytes.
RECURSIVE Elements(_, _, _)
Elements(b, i, c) ==
    IF c = 0 THEN <<>>
    ELSE <<SubSeq(b, i, ObjEnd(b, i) - 1)>> \o Elements(b, ObjEnd(b, i), c - 1)

\* Whether unpack and as<vector> accept the payload (they throw otherwise).
Decodes(b) == ObjEnd(b, 1) # 0 /\ b[1] >= 144

\* OMPtr<IScriptBuffer>::CopyTo: hands the buffer (or null) over and reports success.
CopyTo(rv) == [hr |-> "FX_S_OK", out |-> rv]

\* The last-error text the trampoline reads: "Unknown" unless the host stores one.
LastErrorTextUnknown(text) == "Unknown"
LastErrorText(text) == IF text = "untouched" THEN "Unknown" ELSE text

\* What the trampoline leaves its guest caller: a Uint8Array over a fresh buffer
\* of the host's bytes (none when the host gave no buffer), or no return value
\* and a pending Error with the host's last-error text.
\* (TrampolineValueNullForEmpty: a trampoline that gave null for an empty answer.)
TrampolineValueNullForEmpty(res) ==
    IF res.how # "hostOk" THEN NoValue
    ELSE IF res.val.len = 0 THEN NullBuffer
    ELSE Value("view", 0, 0, res.val.buf, 0, res.val.len)
TrampolineValue(res) ==
    IF res.how # "hostOk" THEN NoValue
    ELSE Value("view", 0, 0, SubSeq(res.val.buf, 1, res.val.len), 0, res.val.len)
TrampolineError(res) ==
    IF res.how = "hostFails" THEN LastErrorText(res.text) ELSE "none"

\* What the operation of activation f gives its caller when it returns.
Returned(f) ==
    LET base == [op |-> f.op, rt |-> f.rt, cls |-> f.cls, hr |-> "FX_S_OK", raised |-> FALSE,
                 out |-> NoValue, traces |-> Traces(f.res), frames |-> <<>>, res |-> f.res,
                 error |-> "none", call |-> f.call]
    IN CASE f.op = "CallRef" ->
                [base EXCEPT !.hr = CopyTo(CallRefRoutine(f.res)).hr,
                             !.out = CopyTo(CallRefRoutine(f.res)).out]
         [] f.op = "DuplicateRef" -> [base EXCEPT !.out = DuplicateRefRoutine(f.res)]
         [] f.op = "WalkStack" ->
                LET blob == StackTraceRoutine(f.res)
                IN IF blob.type = "null" THEN base
                   ELSE IF Decodes(blob.buf)
                        THEN [base EXCEPT !.frames = Elements(blob.buf, 2, blob.buf[1] - 144)]
                        ELSE [base EXCEPT !.hr = "none", !.raised = TRUE]
         [] f.op = "LoadSystemFile" -> [base EXCEPT !.hr = RunFileInternal(f.res)]
         [] f.op = "InvokeNative" ->
                [base EXCEPT !.hr = "none",
                             !.out = IF f.res.how = "returns" THEN f.res.val ELSE NoValue,
                             !.error = IF f.res.how = "throws" THEN f.res.text ELSE "none"]
         [] f.op = "InvokeRef" ->
                [base EXCEPT !.hr = "none", !.out = TrampolineValue(f.res),
                             !.error = TrampolineError(f.res)]
         [] OTHER -> base

\* boot after the activation f of thread t is popped.
BootAfter(f) ==
    IF f.op = "LoadSystemFile"
    THEN [boot EXCEPT ![f.rt] = CreateAfterLoad(@, RunFileInternal(f.res))]
    ELSE boot

\* The body of the innermost activation of t ends: the guest callable a routine
\* wrapper called returns or throws.
GuestResults(vals) == {Outcome("returns", v, "") : v \in vals} \cup {Outcome("throws", NoValue, "err")}

RoutineEnds(t, res) ==
    /\ Running(t)
    /\ Top(t).op \in DispatchOps
    /\ stack' = [stack EXCEPT ![t][Depth(t)].res = res]
    /\ UNCHANGED <<g_currentV8Runtime, lockOwner, rtVars, gcVars, refVars, tickVars, obsVars>>

\* ---------------------------------------------------------------- scope exit
\* ~FxMicrotaskScope, the first destructor of an environment scope to run (the
\* last member declared): RunMicrotasks of the scope's runtime.
\* (ScopeCheckpointAfterRestore: an exit that restored the pointer before its checkpoint.)
ScopeCheckpointAfterRestore(t) ==
    /\ stack[t] # <<>>
    /\ Top(t).ph = "run"
    /\ IsEnvScope(Top(t).cls)
    /\ ~InGcProper(t)
    /\ stack' = [stack EXCEPT ![t][Depth(t)] =
            [@ EXCEPT !.ph = "exit", !.did = RunMicrotasks(Top(t).rt)]]
    /\ g_currentV8Runtime' = [g_currentV8Runtime EXCEPT ![t] = Top(t).last]
    /\ UNCHANGED <<lockOwner, rtVars, gcVars, refVars, tickVars, obsVars>>
ScopeCheckpoint(t) ==
    /\ stack[t] # <<>>
    /\ Top(t).ph = "run"
    /\ IsEnvScope(Top(t).cls)
    /\ ~InGcProper(t)
    /\ stack' = [stack EXCEPT ![t][Depth(t)] =
            [@ EXCEPT !.ph = "exit", !.did = RunMicrotasks(Top(t).rt)]]
    /\ UNCHANGED <<g_currentV8Runtime, lockOwner, rtVars, gcVars, refVars, tickVars, obsVars>>

\* The lambda held by m_scoped: the value it assigns to g_currentV8Runtime.
RestoredRuntimeStale(f) == f.rt
RestoredRuntime(f) == f.last

\* ~ScopeDtor restores g_currentV8Runtime; the Locker's destructor runs last.
ScopeRestore(t) ==
    /\ stack[t] # <<>>
    /\ Top(t).ph = "exit"
    /\ g_currentV8Runtime' = [g_currentV8Runtime EXCEPT ![t] = RestoredRuntime(Top(t))]
    /\ lockOwner' = IF Top(t).hasLock THEN NoThread ELSE lockOwner
    /\ stack' = [stack EXCEPT ![t] = Pop(@)]
    /\ ret' = IF Top(t).res = NoOutcome THEN ret ELSE Returned(Top(t))
    /\ boot' = BootAfter(Top(t))
    /\ UNCHANGED <<rtVars, gcVars, refVars, tickVars, refStr, arenaVars>>

\* The return of an activation that holds no environment scope.
PlainReturn(t) ==
    /\ stack[t] # <<>>
    /\ Top(t).ph = "run"
    /\ ~IsEnvScope(Top(t).cls)
    /\ ~InGcProper(t)
    /\ lockOwner' = IF Top(t).hasLock THEN NoThread ELSE lockOwner
    /\ stack' = [stack EXCEPT ![t] = Pop(@)]
    /\ ret' = IF Top(t).res = NoOutcome THEN ret ELSE Returned(Top(t))
    /\ UNCHANGED <<g_currentV8Runtime, rtVars, gcVars, refVars, tickVars, boot, refStr, arenaVars>>

\* ------------------------------------------------- Create and Destroy
\* Create: makes m_taskQueue and m_context (and, with node, maps the runtime's
\* node::Environment in g_envRuntimes).  The scripts it then loads are RunFile calls.
Create(r) ==
    /\ ctx[r] = "new"
    /\ ctx' = [ctx EXCEPT ![r] = "ready"]
    /\ UNCHANGED <<build, routine, firstReg, lastReg, scopeVars, gcVars, refVars, tickVars, obsVars>>

\* No activation of r is open on any thread.
Quiescent(r) == \A u \in Threads : \A i \in 1..Len(stack[u]) : stack[u][i].rt # r

\* Destroy: clears five routine slots, then enters the environment
\* (V8PushEnvironment with V8_NODE, fx::PushEnvironment alone without), unmaps
\* and frees the node environment and resets m_context.
DestroyedRoutines(rt) ==
    [k \in Kinds |-> IF k \in {"event", "tick", "callRef", "deleteRef", "duplicateRef"}
                     THEN Unset ELSE rt[k]]

Destroy(t, r) ==
    /\ AtTopLevel(t)
    /\ Depth(t) < MaxDepth
    /\ ctx[r] = "ready"
    /\ Quiescent(r)
    /\ routine' = [routine EXCEPT ![r] = DestroyedRoutines(@)]
    /\ ctx' = [ctx EXCEPT ![r] = "destroyed"]
    /\ PushFrame(t, IF build = "server" THEN "V8Push" ELSE "PushEnv", "Destroy", r, "none", 0)
    /\ UNCHANGED <<build, firstReg, lastReg, gcVars, refVars, tickVars, obsVars>>

\* ------------------------------------------------- the node.js scope handler
\* g_envRuntimes[env]: the runtime Create mapped, until Destroy erases it.
GetEnvRuntime(env) ==
    IF env \in Runtimes /\ ctx[env] = "ready" THEN env ELSE NoRuntime

\* (EnterHookClassNeverNoop: an enter hook without the test of the current
\* runtime.)
EnterHookClassNeverNoop(t, runtime, tryPush) ==
    IF runtime # NoRuntime
    THEN IF IsLocked(t) THEN (IF tryPush THEN "Lite" ELSE "LiteNoRuntime")
         ELSE "Lite"
    ELSE "LiteNoRuntime"
\* The enter hook given to node::SetScopeHandler: which frame it pushes on
\* g_envStack.  tryPush is the outcome of PushEnvironment::TryPush.
EnterHookClass(t, runtime, tryPush) ==
    IF runtime # NoRuntime
    THEN IF g_currentV8Runtime[t] = runtime THEN "Noop"
         ELSE IF IsLocked(t) THEN (IF tryPush THEN "Lite" ELSE "LiteNoRuntime")
         ELSE "Lite"
    ELSE "LiteNoRuntime"

NodeEnter(t, env, tryPush) ==
    /\ build = "server"
    /\ Depth(t) < MaxDepth
    /\ AtTopLevel(t) \/ (stack[t] # <<>> /\ Top(t).ph = "run")
    /\ g_isV8InGc > 0 => InGcProper(t)
    /\ LET runtime == GetEnvRuntime(env)
       IN PushFrame(t, EnterHookClass(t, runtime, tryPush), "NodeScope", runtime, "none", 0)
    /\ UNCHANGED <<rtVars, gcVars, refVars, tickVars, obsVars>>

\* g_envStack: the frames of the scope handler among the thread's activations.
\* (IsNodeFrameWithScope: a stack that received no frame on the no-op branch.)
IsNodeFrameWithScope(f) == f.op = "NodeScope" /\ f.cls # "Noop"
IsNodeFrame(f) == f.op = "NodeScope"
g_envStack(t) == SelectSeq(stack[t], IsNodeFrame)

\* ------------------------------------------------------- what guest code does
\* SetTickRoutine .. SetUnhandledPromiseRejectionRoutine: the slot after the call.
SetRoutineOverwrite(cur, f) == f
SetRoutine(cur, f) == IF cur = Unset THEN f ELSE cur

\* V8_SetTickFunction .. V8_SetUnhandledPromiseRejectionRoutine, called by guest
\* code of the runtime the Citizen object belongs to.
Register(t, k, f) ==
    /\ GuestActive(t)
    /\ LET r == GuestRuntime(t)
       IN /\ routine' = [routine EXCEPT ![r][k] = SetRoutine(@, f)]
          /\ firstReg' = [firstReg EXCEPT ![r][k] = IF @ = Unset THEN f ELSE @]
          /\ lastReg' = [rt |-> r, kind |-> k, fn |-> f]
    /\ UNCHANGED <<build, ctx, scopeVars, gcVars, refVars, tickVars, obsVars>>

\* The isolate's promise-reject callback (registered without V8_NODE) calls
\* HandlePromiseRejection of the context's runtime while guest code runs.
HandlePromiseRejection(t) ==
    /\ build = "client"
    /\ Depth(t) < MaxDepth
    /\ GuestActive(t)
    /\ routine[GuestRuntime(t)]["unhandledRejection"] # Unset
    /\ PushFrame(t, "None", "PromiseReject", GuestRuntime(t),
                 routine[GuestRuntime(t)]["unhandledRejection"], 0)
    /\ UNCHANGED <<rtVars, gcVars, refVars, tickVars, obsVars>>
\* ---------------------------------------------------------- the string arena
\* _countof(m_stringValues)
NumStringValues == 50

\* (AssignStringValueNoWrap: a cursor that stops at the last slot.)
AssignStringValueNoWrap(r) ==
    /\ acquired' = [acquired EXCEPT ![r] = @ + 1]
    /\ m_stringValues' = [m_stringValues EXCEPT ![r][m_curStringValue[r]] = acquired[r] + 1]
    /\ m_curStringValue' = [m_curStringValue EXCEPT ![r] =
            IF @ + 1 < NumStringValues THEN @ + 1 ELSE @]
\* AssignStringValue: the new Utf8Value (named by its ordinal) takes the slot
\* under the cursor, whose former string is released, and the cursor moves on.
AssignStringValue(r) ==
    /\ acquired' = [acquired EXCEPT ![r] = @ + 1]
    /\ m_stringValues' = [m_stringValues EXCEPT ![r][m_curStringValue[r]] = acquired[r] + 1]
    /\ m_curStringValue' = [m_curStringValue EXCEPT ![r] = (@ + 1) % NumStringValues]

\* ------------------------------------------- PushArgument of a script number
\* The 64-bit integer n * 2^p + off.
Int64(n, p, off) == Value("int64", n, p, <<>>, off, 0)
Int64Min == Int64(-1, 63, 0)
Int64Max == Int64(1, 63, -1)

\* The whole number k * 2^p with the factors of two moved into the exponent.
RECURSIVE Normal(_, _)
Normal(k, p) ==
    IF k = 0 THEN [n |-> 0, p |-> 0]
    ELSE IF k % 2 = 0 THEN Normal(k \div 2, p + 1)
    ELSE [n |-> k, p |-> p]

\* The double lies in [-2^63, 2^63): static_cast<int64_t> is defined on it.
InInt64Range(v) ==
    /\ v.type = "number"
    /\ \/ v.n = 0
       \/ Bits(v.n) + v.p <= 63
       \/ (v.n = -1 /\ v.p = 63)

\* Truncation toward zero of a double inside the range.
TruncateToInt64(v) ==
    IF v.p >= 0 THEN Int64(v.n, v.p, 0)
    ELSE LET m == (IF v.n < 0 THEN 0 - v.n ELSE v.n) \div (2 ^ (0 - v.p))
             k == Normal(IF v.n < 0 THEN 0 - m ELSE m, 0)
         IN Int64(k.n, k.p, 0)

\* static_cast<int64_t>(value): truncation inside the range; outside it (and for
\* NaN and the infinities) the conversion is undefined, and what comes out
\* depends on the build: the x86-64 conversion instruction gives INT64_MIN, a
\* saturating conversion gives the nearest bound, and 0 for NaN.
StaticCastInt64(v) ==
    IF InInt64Range(v) THEN {TruncateToInt64(v)}
    ELSE {Int64Min} \cup
         (IF v.type = "nan" THEN {Int64(0, 0, 0)}
          ELSE IF v.n > 0 THEN {Int64Max} ELSE {Int64Min})

\* intValue == value: the integer is converted to double (INT64_MAX rounds to
\* 2^63; every other integer here is exact) and compared; NaN equals nothing.
IntEqualsDouble(i, v) ==
    /\ v.type = "number"
    /\ IF i.off = 0 THEN i.n = v.n /\ i.p = v.p
       ELSE v.n = 1 /\ v.p = 63

\* PushArgument on a number, called by guest code through a native invocation:
\* Push(intValue) when the cast compares equal, Push(value) otherwise.
PushArgument(t, v) ==
    /\ GuestActive(t)
    /\ \E intValue \in StaticCastInt64(v) :
            ret' = [NoReturn EXCEPT
                        !.op = "PushArgument", !.rt = GuestRuntime(t),
                        !.res = Outcome("arg", v, ""),
                        !.out = IF IntEqualsDouble(intValue, v) THEN intValue ELSE v]
    /\ UNCHANGED <<rtVars, scopeVars, gcVars, refVars, tickVars, boot, refStr, arenaVars>>

\* ------------------------------------------------------ the value marshaler
\* A script array of elements, and an object by its __data property (fields is
\* <<>> when it has none, <<v>> when reading it gives v, and <<a value of type
\* "throws">> when reading it raises).
Array(elems) == Value("array", 0, 0, elems, 0, Len(elems))
Object(fields) == Value("object", 0, 0, fields, 0, 0)

\* One argument of the native context: its kind and what it holds.
Arg(kind, v) == [kind |-> kind, v |-> v]

\* What a PushArgument call did: the arguments it appended and the error it
\* raised ("none": it returned).  ScriptError raises and does not return.
Pushed(args) == [pushed |-> args, error |-> "none"]
ScriptError(args, message) == [pushed |-> args, error |-> message]

\* (IsNumberFinite: a test that took NaN and the infinities for non-numbers.)
IsNumberFinite(v) == v.type = "number"
\* Value::IsNumber
IsNumber(v) == v.type \in {"number", "nan", "inf"}

\* (GetNumberFirst: a getNumber that read element 0 whatever the index.)
GetNumberFirst(array, idx) ==
    IF 0 < array.len /\ IsNumber(array.buf[1]) THEN array.buf[1] ELSE NaN
\* The getNumber lambda: element idx as a float, NAN when the element is
\* absent or is no number.  (The elements used are exact as floats.)
GetNumber(array, idx) ==
    IF idx < array.len /\ IsNumber(array.buf[idx + 1]) THEN array.buf[idx + 1] ELSE NaN

\* x == NAN: a comparison with a NaN is false whatever x is, NaN included.
EqualsNAN(x) == FALSE

\* (WrongNumberOfValuesAbove: a length test without its lower half.)
WrongNumberOfValuesAbove(len) == len > 4
\* array->Length() < 2 || array->Length() > 4
WrongNumberOfValues(len) == len < 2 \/ len > 4

\* The array branch of PushArgument.
PushVector(array) ==
    LET x == GetNumber(array, 0)
        y == GetNumber(array, 1)
        z == GetNumber(array, 2)
        w == GetNumber(array, 3)
        xy == <<Arg("float", x), Arg("float", y)>>
        xyz == Append(xy, Arg("float", z))
    IN IF WrongNumberOfValues(array.len)
       THEN ScriptError(<<>>, "arrays should be vectors (wrong number of values)")
       ELSE IF array.len < 2 THEN Pushed(<<>>)
       ELSE IF EqualsNAN(x) \/ EqualsNAN(y) THEN ScriptError(<<>>, "invalid vector array value")
       ELSE IF array.len < 3 THEN Pushed(xy)
       ELSE IF EqualsNAN(z) THEN ScriptError(xy, "invalid vector array value")
       ELSE IF array.len < 4 THEN Pushed(xyz)
       ELSE IF EqualsNAN(w) THEN ScriptError(xyz, "invalid vector array value")
       ELSE Pushed(Append(xyz, Arg("float", w)))

\* Value::Int32Value of a number: NaN and the infinities give 0, the others are
\* truncated and reduced modulo 2^32 into [-2^31, 2^31).
Int32Value(v) ==
    IF v.type # "number" THEN Number(0, 0)
    ELSE IF v.p < 0 THEN LET i == TruncateToInt64(v) IN Number(i.n, i.p)
    ELSE IF IsInt32(v) THEN v
    ELSE IF v.p >= 32 THEN Number(0, 0)
    ELSE LET m == v.n % (2 ^ (32 - v.p))
             k == Normal(IF m >= 2 ^ (31 - v.p) THEN m - 2 ^ (32 - v.p) ELSE m, v.p)
         IN Number(k.n, k.p)

\* The object branch of PushArgument.
PushObject(object) ==
    LET got == object.buf = <<>> \/ object.buf[1].type # "throws"
        data == IF object.buf = <<>> THEN Undefined ELSE object.buf[1]
    IN IF ~got THEN ScriptError(<<>>, "__data field does not contain a number")
       ELSE IF IsNumber(data) THEN Pushed(<<Arg("int32", Int32Value(data))>>)
       ELSE ScriptError(<<>>, "__data field does not contain a number")

\* Value::IsObject: arrays, views and the wrapper objects are objects too.
IsObject(v) == v.type \in {"object", "array", "view", "booleanobject"}

\* String::Utf8Value of a value that is no object: the units of its string
\* form; of a symbol, whose conversion to a string throws inside the
\* constructor, the null pointer.
Utf8Value(v) ==
    CASE v.type = "bigint" -> ToString(v.n)
      [] v.type = "symbol" -> "nullptr"
      [] OTHER -> v.type

\* ScriptErrorf("invalid V8 value: %s", *str): the messages of the error it
\* raises; what is printed for a null pointer is not defined.
InvalidValueMessages(str) ==
    IF str = "nullptr" THEN {"invalid V8 value: (null)", "invalid V8 value: "}
    ELSE {"invalid V8 value: " \o str}

\* PushArgument, the cascade of tests on the argument of runtime r, in its order;
\* the cast of a number has the outcomes of StaticCastInt64, a string goes to
\* the slot AssignStringValue fills next.
Marshals(arg, r) ==
    IF IsNumber(arg)
    THEN {Pushed(<<IF IntEqualsDouble(intValue, arg) THEN Arg("int64", intValue)
                    ELSE Arg("double", arg)>>) : intValue \in StaticCastInt64(arg)}
    ELSE IF arg.type \in {"boolean", "booleanobject"} THEN {Pushed(<<Arg("bool", arg)>>)}
    ELSE IF arg.type = "string" THEN {Pushed(<<Arg("string", acquired[r] + 1)>>)}
    ELSE IF arg.type \in {"null", "undefined"} THEN {Pushed(<<Arg("int", Number(0, 0))>>)}
    ELSE IF arg.type = "external" THEN {Pushed(<<Arg("pointer", arg)>>)}
    ELSE IF arg.type = "array" THEN {PushVector(arg)}
    ELSE IF arg.type = "view"
    THEN {Pushed(<<Arg("buffer", View(arg.buf, arg.off, Len(arg.buf)))>>)}
    ELSE IF IsObject(arg) THEN {PushObject(arg)}
    ELSE {ScriptError(<<>>, message) : message \in InvalidValueMessages(Utf8Value(arg))}

\* The native invocation the innermost activation is making: the script
\* arguments marshalled so far, what each appended, the error raised, whether
\* the native function was invoked, and the results it reported.
NativeCall(f) ==
    IF f.call = <<>>
    THEN [args |-> <<>>, pushes |-> <<>>, error |-> "none", invoked |-> FALSE, results |-> <<>>]
    ELSE f.call
ArgCount(t) == IF stack[t] = <<>> THEN 0 ELSE Len(NativeCall(Top(t)).args)

\* The native invocations a state shows: the ones in progress and the one that
\* returned last.
NativeCalls ==
    {NativeCall(Top(t)) : t \in {u \in Threads : stack[u] # <<>> /\ Top(u).op = "InvokeNative"}}
    \cup (IF ret.op = "InvokeNative" THEN {ret.call} ELSE {})

\* (V8_TryCatchSwallows: a wrapper that caught the exception and threw nothing.)
V8_TryCatchSwallows(what) == "none"
\* V8_TryCatch: the text of the Error thrown to the guest for a caught exception.
V8_TryCatch(what) == what

\* Guest code calls invokeNative: V8_InvokeNativeString or V8_InvokeNativeHash
\* calls V8_InvokeNative inside V8_TryCatch; no scope object is constructed.
\* (The record of the last return is cleared: it is of this invocation next.)
V8_InvokeNative(t) ==
    /\ Depth(t) < MaxDepth
    /\ GuestActive(t)
    /\ PushFrame(t, "None", "InvokeNative", GuestRuntime(t), "none", 0)
    /\ ret' = NoReturn
    /\ UNCHANGED <<rtVars, gcVars, refVars, tickVars, boot, refStr, arenaVars>>

\* The loop of V8_InvokeNative marshals its next argument, arg; an exception
\* leaves the loop and V8_InvokeNative and is turned into a script error.
ContextPushArgument(t, arg) ==
    /\ Running(t)
    /\ Top(t).op = "InvokeNative"
    /\ LET c == NativeCall(Top(t))
           r == Top(t).rt
       IN /\ c.error = "none" /\ ~c.invoked
          /\ \E m \in Marshals(arg, r) :
                stack' = [stack EXCEPT ![t][Depth(t)] =
                    [@ EXCEPT !.call = [c EXCEPT !.args = Append(@, arg),
                                                 !.pushes = Append(@, m.pushed),
                                                 !.error = m.error],
                              !.res = IF m.error = "none" THEN NoOutcome
                                      ELSE Outcome("throws", NoValue, V8_TryCatch(m.error))]]
          /\ IF arg.type = "string" THEN AssignStringValue(r) ELSE UNCHANGED arenaVars
    /\ UNCHANGED <<g_currentV8Runtime, lockOwner, rtVars, gcVars, refVars, tickVars,
                   ret, boot, refStr>>

\* ProcessResult: the script value of one native result (a vector becomes an
\* array of its components, a null C string becomes null).
ProcessResult(value) ==
    CASE value.kind = "vector" -> Array(value.v)
      [] value.kind = "cstr" /\ value.v = NullBuffer -> NullBuffer
      [] OTHER -> value.v

\* The visitor V8_InvokeNative gives ProcessResults, run over the results in
\* the order they are reported, from result numResults + 1 on.
RECURSIVE CollectAlwaysArray(_, _, _)
CollectAlwaysArray(results, numResults, returnValue) ==
    IF numResults = Len(results) THEN returnValue
    ELSE CollectAlwaysArray(results, numResults + 1,
            Array(Append(IF numResults = 0 THEN <<>> ELSE returnValue.buf,
                         ProcessResult(results[numResults + 1]))))
RECURSIVE Collect(_, _, _)
Collect(results, numResults, returnValue) ==
    IF numResults = Len(results) THEN returnValue
    ELSE LET val == ProcessResult(results[numResults + 1])
             arr == IF numResults = 1 THEN Array(<<returnValue>>) ELSE returnValue
         IN Collect(results, numResults + 1,
                IF numResults = 0 THEN val
                ELSE Array([i \in 1..(numResults + 1) |->
                                IF i = numResults + 1 THEN val ELSE arr.buf[i]]))

\* context.Invoke() and the processing of the results the native reported.
ContextInvoke(t, results) ==
    /\ Running(t)
    /\ Top(t).op = "InvokeNative"
    /\ LET c == NativeCall(Top(t))
       IN /\ c.error = "none" /\ ~c.invoked
          /\ stack' = [stack EXCEPT ![t][Depth(t)] =
                [@ EXCEPT !.call = [c EXCEPT !.invoked = TRUE, !.results = results],
                          !.res = Outcome("returns", Collect(results, 0, Undefined), "")]]
    /\ UNCHANGED <<g_currentV8Runtime, lockOwner, rtVars, gcVars, refVars, tickVars, obsVars>>

\* ------------------------------------------------ initialized pointer fields
\* The 32-bit pattern of the float n * 2^p (a normal float whose significand n
\* has at most 24 bits): sign, biased exponent and fraction, as a whole number.
FloatPattern(v) ==
    IF v.n = 0 THEN Number(0, 0)
    ELSE LET a == IF v.n < 0 THEN 0 - v.n ELSE v.n
             b == Bits(a)
             k == Normal(((IF v.n < 0 THEN 256 ELSE 0) + v.p + b - 1 + 127) * 2 ^ (b - 1)
                          + (a - 2 ^ (b - 1)), 23 - (b - 1))
         IN Number(k.n, k.p)

\* Value::IntegerValue of a number inside the range of int64_t.
IntegerValue(v) == LET i == TruncateToInt64(v) IN Number(i.n, i.p)

\* V8_GetPointerField<field>: the value it hands to GetPointerField.  In the
\* float branch fvalue is computed and `value = *reinterpret_cast<uint32_t*>(&value)`
\* reads four bytes of value itself, which is 0 in every byte.
PointerFieldValue(field, arg) ==
    LET value == Number(0, 0)
        fvalue == FloatPattern(arg)
    IN IF field = "PointerValueInteger" THEN IntegerValue(arg)
       ELSE value

\* Guest code calls Citizen.pointerValueIntInitialized(arg) or
\* Citizen.pointerValueFloatInitialized(arg); the field is made with the value.
V8_GetPointerField(t, field, arg) ==
    /\ GuestActive(t)
    /\ ret' = [NoReturn EXCEPT !.op = "GetPointerField", !.rt = GuestRuntime(t),
                               !.out = PointerFieldValue(field, arg),
                               !.call = [field |-> field, arg |-> arg]]
    /\ UNCHANGED <<rtVars, scopeVars, gcVars, refVars, tickVars, boot, refStr, arenaVars>>

\* ------------------------------------------------------ the event payload
\* (EventArgumentAliased: a view made over the caller's payload itself.)
EventArgumentAliased(payloadSize) == [buf |-> "eventPayload", off |-> 0, len |-> payloadSize]
\* arguments[1] of the event function: Uint8Array::New(inValueBuffer, 0, payloadSize).
EventArgument(payloadSize) == [buf |-> "inValueBuffer", off |-> 0, len |-> payloadSize]

\* The event routine, called by TriggerEvent with the caller's bytes
\* eventPayload and payloadSize: it allocates an ArrayBuffer of payloadSize
\* bytes, copies the first payloadSize bytes of eventPayload into it and calls
\* the guest's function with a view of the new buffer.
EventRoutine(t, eventPayload, payloadSize) ==
    /\ Running(t)
    /\ Top(t).op = "TriggerEvent"
    /\ Top(t).call = <<>>
    /\ stack' = [stack EXCEPT ![t][Depth(t)].call =
            [eventPayload |-> eventPayload,
             payloadSize |-> payloadSize,
             inValueBuffer |-> [i \in 1..payloadSize |-> eventPayload[i]],
             view |-> EventArgument(payloadSize)]]
    /\ UNCHANGED <<g_currentV8Runtime, lockOwner, rtVars, gcVars, refVars, tickVars, obsVars>>

\* The guest's event function stores byte b at index i of the view it was
\* given (a store outside the view does nothing).
GuestWrite(t, i, b) ==
    /\ Running(t)
    /\ Top(t).op = "TriggerEvent"
    /\ Top(t).call # <<>>
    /\ i < Top(t).call.view.len
    /\ stack' = [stack EXCEPT ![t][Depth(t)].call =
            [@ EXCEPT ![@.view.buf] = [@ EXCEPT ![Top(t).call.view.off + i + 1] = b]]]
    /\ UNCHANGED <<g_currentV8Runtime, lockOwner, rtVars, gcVars, refVars, tickVars, obsVars>>

\* ------------------------------------------------- the reference registry
\* The next RefAndPersistent that new returns.
NextRef == CHOOSE e \in Refs : est[e] = "none" /\ \A d \in Refs : est[d] = "none" => e <= d

\* (V8_MakeFunctionReferenceKeepsEntry: a MakeFunctionReference that made the
\* handle weak before it tested whether there is a wrapper, and kept the entry.)
V8_MakeFunctionReferenceKeepsEntry(t, id, created) ==
    /\ GuestActive(t)
    /\ \E e \in Refs : est[e] = "none"
    /\ LET e == NextRef
       IN /\ est' = [est EXCEPT ![e] = "live"]
          /\ handle' = [handle EXCEPT ![e] = "weak"]
          /\ reach' = [reach EXCEPT ![e] = created]
          /\ refStr' = [refStr EXCEPT ![e] = [arg |-> id, ref |-> RefString(id)]]
    /\ UNCHANGED <<g_cleanUpFuncRefs, rtVars, scopeVars, gcVars, tickVars, ret, boot, arenaVars>>
\* V8_MakeFunctionReference: allocates the entry; when Function::New gives a
\* wrapper (created) the handle is set and made weak and the wrapper returned to
\* the guest, otherwise the entry is deleted at once.
V8_MakeFunctionReference(t, id, created) ==
    /\ GuestActive(t)
    /\ \E e \in Refs : est[e] = "none"
    /\ LET e == NextRef
       IN IF created
          THEN /\ est' = [est EXCEPT ![e] = "live"]
               /\ handle' = [handle EXCEPT ![e] = "weak"]
               /\ reach' = [reach EXCEPT ![e] = TRUE]
               /\ refStr' = [refStr EXCEPT ![e] = [arg |-> id, ref |-> RefString(id)]]
          ELSE /\ est' = [est EXCEPT ![e] = "discarded"]
               /\ UNCHANGED <<handle, reach, refStr>>
    /\ UNCHANGED <<g_cleanUpFuncRefs, rtVars, scopeVars, gcVars, tickVars, ret, boot, arenaVars>>

\* Guest code lets go of its last reference to a wrapper function.
DropReference(t, e) ==
    /\ GuestActive(t)
    /\ reach[e]
    /\ reach' = [reach EXCEPT ![e] = FALSE]
    /\ UNCHANGED <<est, handle, g_cleanUpFuncRefs, rtVars, scopeVars, gcVars, tickVars, obsVars>>

\* V8_InvokeFunctionReference: guest code calls a wrapper it holds; the
\* trampoline reads the entry and calls the host's InvokeFunctionReference,
\* which may call back into a runtime before it returns.
V8_InvokeFunctionReference(t, e) ==
    /\ Depth(t) < MaxDepth
    /\ GuestActive(t)
    /\ reach[e]
    /\ PushFrame(t, "None", "InvokeRef", GuestRuntime(t), "none", e)
    /\ UNCHANGED <<rtVars, gcVars, refVars, tickVars, obsVars>>

\* The trampoline's call of IScriptHost::InvokeFunctionReference returns.  arg is
\* the view the guest passed (its bytes were copied into argsBuffer and handed
\* over with the entry's reference as a char*); the host gives a buffer or none
\* and succeeds, or fails, having a last-error text or not.
HostInvokeFunctionReference(t, arg, res) ==
    /\ Running(t)
    /\ Top(t).op = "InvokeRef"
    /\ stack' = [stack EXCEPT ![t][Depth(t)] =
            [@ EXCEPT !.res = res,
                      !.call = [e |-> Top(t).ref, id |-> CStr(refStr[Top(t).ref].ref),
                                payload |-> ViewBytes(arg), arg |-> arg]]]
    /\ UNCHANGED <<g_currentV8Runtime, lockOwner, rtVars, gcVars, refVars, tickVars, obsVars>>

\* FnRefWeakCallback: what the weak callback does to the entry and the queue.
WeakCallbackNoReset(e) ==
    /\ UNCHANGED handle
    /\ g_cleanUpFuncRefs' = Append(g_cleanUpFuncRefs, e)
WeakCallbackNoPush(e) ==
    /\ handle' = [handle EXCEPT ![e] = "empty"]
    /\ UNCHANGED g_cleanUpFuncRefs
WeakCallback(e) ==
    /\ handle' = [handle EXCEPT ![e] = "empty"]
    /\ g_cleanUpFuncRefs' = Append(g_cleanUpFuncRefs, e)

\* The wrapper function of e is reachable: guest code holds it, or a call of it
\* is on some thread's stack.
Reachable(e) ==
    \/ reach[e]
    \/ \E u \in Threads : \E i \in 1..Len(stack[u]) :
            stack[u][i].op = "InvokeRef" /\ stack[u][i].ref = e

\* The collector calls the weak callback of a wrapper that is not reachable,
\* once, during a GC pass on the thread that holds the isolate.
FnRefWeakCallback(t, e) ==
    /\ InGcProper(t)
    /\ est[e] = "live"
    /\ handle[e] = "weak"
    /\ ~Reachable(e)
    /\ e \notin {g_cleanUpFuncRefs[i] : i \in 1..Len(g_cleanUpFuncRefs)}
    /\ WeakCallback(e)
    /\ UNCHANGED <<est, reach, rtVars, scopeVars, gcVars, tickVars, obsVars>>

\* delete deleteRef
Deleted(status) == IF status = "live" THEN "freed" ELSE "doublefree"

\* ------------------------------------------------------- garbage collection
\* The GC prologue callback: a pass starts on the thread that is in the isolate.
GCPrologue(t) ==
    /\ IsLocked(t)
    /\ Running(t) \/ InGcProper(t)
    /\ g_isV8InGc < MaxGc
    /\ g_isV8InGc' = g_isV8InGc + 1
    /\ gcMark' = Append(gcMark, [t |-> t, depth |-> Depth(t)])
    /\ UNCHANGED <<rtVars, scopeVars, refVars, tickVars, obsVars>>

\* The GC epilogue callback.
GCEpilogue(t) ==
    /\ InGcProper(t)
    /\ g_isV8InGc' = g_isV8InGc - 1
    /\ gcMark' = Pop(gcMark)
    /\ UNCHANGED <<rtVars, scopeVars, refVars, tickVars, obsVars>>

\* ------------------------------------------------- the per-tick handlers
INT32_MIN == -2147483647 - 1
INT32_MAX == 2147483647

\* The three handlers OnInitializeInstance connects to manager->OnTick, in the
\* order of the Connect calls, each with its order argument (the third call gives
\* none: the default order, 0).
Handlers ==
    << [fn |-> "lockAndPump", order |-> INT32_MIN],
       [fn |-> "unlock", order |-> INT32_MAX],
       [fn |-> "drain", order |-> 0] >>

\* An event runs its callbacks by ascending order, equal orders as connected.
Rank(i) ==
    1 + Cardinality({j \in 1..Len(Handlers) :
            \/ Handlers[j].order < Handlers[i].order
            \/ (Handlers[j].order = Handlers[i].order /\ j < i)})
OnTick == [p \in 1..Len(Handlers) |-> Handlers[CHOOSE i \in 1..Len(Handlers) : Rank(i) = p]]

NextHandler == OnTick[tickIdx + 1].fn
Advance == IF tickIdx + 1 = Len(Handlers) THEN 0 ELSE tickIdx + 1

\* The INT32_MIN handler: constructs the static Locker and Isolate::Scope and,
\* without node, pumps the platform's message loop.
TickLockAndPumpNoLock ==
    /\ NextHandler = "lockAndPump"
    /\ AtTopLevel(TickThread)
    /\ tickHasLock' = FALSE
    /\ pumped' = (build = "client")
    /\ tickIdx' = Advance
    /\ UNCHANGED <<lockOwner, draining, rtVars, stack, g_currentV8Runtime, gcVars, refVars, obsVars>>
TickLockAndPump ==
    /\ NextHandler = "lockAndPump"
    /\ AtTopLevel(TickThread)
    /\ LockerCanEnter(TickThread)
    /\ tickHasLock' = LockerTopLevel(TickThread)
    /\ lockOwner' = TickThread
    /\ pumped' = (build = "client")
    /\ tickIdx' = Advance
    /\ UNCHANGED <<draining, rtVars, stack, g_currentV8Runtime, gcVars, refVars, obsVars>>

\* The INT32_MAX handler: destroys the static Isolate::Scope and Locker.
TickUnlock ==
    /\ NextHandler = "unlock"
    /\ AtTopLevel(TickThread)
    /\ lockOwner' = IF tickHasLock THEN NoThread ELSE lockOwner
    /\ tickHasLock' = FALSE
    /\ pumped' = FALSE
    /\ tickIdx' = Advance
    /\ UNCHANGED <<draining, rtVars, stack, g_currentV8Runtime, gcVars, refVars, obsVars>>

\* The default-order handler, one turn of its loop: try_pop gives an entry,
\* which is deleted.
TickDrainPop ==
    /\ NextHandler = "drain"
    /\ stack[TickThread] = <<>>
    /\ g_cleanUpFuncRefs # <<>>
    /\ est' = [est EXCEPT ![Head(g_cleanUpFuncRefs)] = Deleted(@)]
    /\ g_cleanUpFuncRefs' = Tail(g_cleanUpFuncRefs)
    /\ draining' = TRUE
    /\ UNCHANGED <<handle, reach, tickIdx, tickHasLock, pumped, rtVars, scopeVars, gcVars, obsVars>>

\* Whether the loop of the drain handler ends here.
DrainStopsAfterOne == draining \/ g_cleanUpFuncRefs = <<>>
DrainStops == g_cleanUpFuncRefs = <<>>

\* The default-order handler returns: try_pop found the queue empty.
TickDrainEnd ==
    /\ NextHandler = "drain"
    /\ stack[TickThread] = <<>>
    /\ DrainStops
    /\ draining' = FALSE
    /\ tickIdx' = Advance
    /\ UNCHANGED <<tickHasLock, pumped, rtVars, scopeVars, gcVars, refVars, obsVars>>

\* ------------------------------------------------------- specifications
NoRoutines == [k \in Kinds |-> Unset]
NoRegistration == [rt |-> NoRuntime, kind |-> "none", fn |-> Unset]

\* The state after construction: every runtime constructed and not yet created,
\* no thread in the isolate, the queue empty.
Init ==
    /\ build \in {"server", "client"}
    /\ ctx = [r \in Runtimes |-> "new"]
    /\ routine = [r \in Runtimes |-> NoRoutines]
    /\ firstReg = [r \in Runtimes |-> NoRoutines]
    /\ lastReg = NoRegistration
    /\ stack = [t \in Threads |-> <<>>]
    /\ g_currentV8Runtime = [t \in Threads |-> NoRuntime]
    /\ lockOwner = NoThread
    /\ g_isV8InGc = 0
    /\ gcMark = <<>>
    /\ est = [e \in Refs |-> "none"]
    /\ handle = [e \in Refs |-> "empty"]
    /\ reach = [e \in Refs |-> FALSE]
    /\ g_cleanUpFuncRefs = <<>>
    /\ tickIdx = 0
    /\ tickHasLock = FALSE
    /\ pumped = FALSE
    /\ draining = FALSE
    /\ ret = NoReturn
    /\ boot = [r \in Runtimes |-> NoBoot]
    /\ refStr = [e \in Refs |-> NoRef]
    /\ m_stringValues = [r \in Runtimes |-> [i \in 0..(NumStringValues - 1) |-> 0]]
    /\ m_curStringValue = [r \in Runtimes |-> 0]
    /\ acquired = [r \in Runtimes |-> 0]

Next ==
    \/ \E r \in Runtimes : Create(r)
    \/ \E t \in Threads, r \in Runtimes : RunFile(t, r)
    \/ \E t \in Threads, r \in Runtimes, op \in DispatchOps : EnterDispatch(t, r, op)
    \/ \E t \in Threads, r \in Runtimes : EmitWarning(t, r)
    \/ \E t \in Threads : ReadFileData(t)
    \/ \E t \in Threads, r \in Runtimes : Destroy(t, r)
    \/ \E t \in Threads, env \in Envs, tryPush \in BOOLEAN : NodeEnter(t, env, tryPush)
    \/ \E t \in Threads : ScopeCheckpoint(t)
    \/ \E t \in Threads : ScopeRestore(t)
    \/ \E t \in Threads : PlainReturn(t)
    \/ \E t \in Threads, k \in Kinds, f \in Callables : Register(t, k, f)
    \/ \E t \in Threads : HandlePromiseRejection(t)
    \/ \E t \in Threads, created \in BOOLEAN : V8_MakeFunctionReference(t, Foo, created)
    \/ \E t \in Threads, e \in Refs : DropReference(t, e)
    \/ \E t \in Threads, e \in Refs : V8_InvokeFunctionReference(t, e)
    \/ \E t \in Threads, e \in Refs : FnRefWeakCallback(t, e)
    \/ \E t \in Threads : GCPrologue(t)
    \/ \E t \in Threads : GCEpilogue(t)
    \/ TickLockAndPump
    \/ TickUnlock
    \/ TickDrainPop
    \/ TickDrainEnd

Spec == Init /\ [][Next]_vars

\* ---- the routine table: creation, script loading, registration, dispatch
\* from the host's top level, destruction (one thread, one runtime).
NextRoutines ==
    \/ Create("r1")
    \/ AtTopLevel("t1") /\ RunFile("t1", "r1")
    \/ \E op \in DispatchOps : AtTopLevel("t1") /\ EnterDispatch("t1", "r1", op)
    \/ HandlePromiseRejection("t1")
    \/ \E k \in Kinds, f \in Callables : Register("t1", k, f)
    \/ Destroy("t1", "r1")
    \/ ScopeCheckpoint("t1")
    \/ ScopeRestore("t1")
    \/ PlainReturn("t1")

SpecRoutines == Init /\ [][NextRoutines]_vars

\* ---- a state both builds reach once the host has created its runtimes: the
\* bootstrap scripts have run and registered one callable for every routine.
AllRoutines == [k \in Kinds |-> "f1"]

InitReady ==
    /\ build \in {"server", "client"}
    /\ ctx = [r \in Runtimes |-> "ready"]
    /\ routine = [r \in Runtimes |-> AllRoutines]
    /\ firstReg = [r \in Runtimes |-> AllRoutines]
    /\ lastReg = [rt |-> "r2", kind |-> "unhandledRejection", fn |-> "f1"]
    /\ stack = [t \in Threads |-> <<>>]
    /\ g_currentV8Runtime = [t \in Threads |-> NoRuntime]
    /\ lockOwner = NoThread
    /\ g_isV8InGc = 0
    /\ gcMark = <<>>
    /\ est = [e \in Refs |-> "none"]
    /\ handle = [e \in Refs |-> "empty"]
    /\ reach = [e \in Refs |-> FALSE]
    /\ g_cleanUpFuncRefs = <<>>
    /\ tickIdx = 0
    /\ tickHasLock = FALSE
    /\ pumped = FALSE
    /\ draining = FALSE
    /\ ret = NoReturn
    /\ boot = [r \in Runtimes |-> NoBoot]
    /\ refStr = [e \in Refs |-> NoRef]
    /\ m_stringValues = [r \in Runtimes |-> [i \in 0..(NumStringValues - 1) |-> 0]]
    /\ m_curStringValue = [r \in Runtimes |-> 0]
    /\ acquired = [r \in Runtimes |-> 0]

\* ---- the environment scopes: nested dispatch on two threads, the node.js
\* scope handler, garbage-collection passes and the per-tick handlers.
NextEnv ==
    \/ \E t \in Threads, r \in Runtimes, op \in {"Tick", "TriggerEvent"} : EnterDispatch(t, r, op)
    \/ \E t \in Threads, r \in Runtimes : EmitWarning(t, r)
    \/ \E t \in Threads : ReadFileData(t)
    \/ \E t \in Threads, env \in Envs, tryPush \in BOOLEAN : NodeEnter(t, env, tryPush)
    \/ \E t \in Threads : ScopeCheckpoint(t)
    \/ \E t \in Threads : ScopeRestore(t)
    \/ \E t \in Threads : PlainReturn(t)
    \/ \E t \in Threads : GCPrologue(t)
    \/ \E t \in Threads : GCEpilogue(t)
    \/ TickLockAndPump
    \/ TickUnlock
    \/ TickDrainEnd

SpecEnv == InitReady /\ [][NextEnv]_vars

\* ---- the dispatch surface: every dispatch operation, nested through native
\* callbacks, on two threads.
NextDispatch ==
    \/ \E t \in Threads, r \in Runtimes, op \in DispatchOps : EnterDispatch(t, r, op)
    \/ \E t \in Threads, r \in Runtimes : EmitWarning(t, r)
    \/ \E t \in Threads : ScopeCheckpoint(t)
    \/ \E t \in Threads : ScopeRestore(t)
    \/ \E t \in Threads : PlainReturn(t)

SpecDispatch == InitReady /\ [][NextDispatch]_vars

\* ---- the reference registry: guest code of one runtime making, calling and
\* dropping function references, the collector finalizing them, the per-tick
\* handlers draining the queue.
NextRefs ==
    \/ \E t \in Threads : EnterDispatch(t, "r1", "TriggerEvent")
    \/ \E t \in Threads, created \in BOOLEAN : V8_MakeFunctionReference(t, Foo, created)
    \/ \E t \in Threads, e \in Refs : DropReference(t, e)
    \/ \E t \in Threads, e \in Refs : V8_InvokeFunctionReference(t, e)
    \/ \E t \in Threads, e \in Refs : FnRefWeakCallback(t, e)
    \/ \E t \in Threads : GCPrologue(t)
    \/ \E t \in Threads : GCEpilogue(t)
    \/ \E t \in Threads : ScopeCheckpoint(t)
    \/ \E t \in Threads : ScopeRestore(t)
    \/ \E t \in Threads : PlainReturn(t)
    \/ TickLockAndPump
    \/ TickUnlock
    \/ TickDrainPop
    \/ TickDrainEnd

SpecRefs == InitReady /\ [][NextRefs]_vars

\* ---- the registry with the scheduling the host gives it: every call is
\* synchronous and runs to completion (each thread is back at its top level again
\* and again, however many calls it makes) and the resource manager keeps
\* ticking (whenever a handler of the tick can run again and again, it does).
TickStep == TickLockAndPump \/ TickDrainPop \/ TickDrainEnd \/ TickUnlock

FairRefs ==
    /\ \A t \in Threads : []<>(stack[t] = <<>>)
    /\ SF_vars(TickStep)

FairSpecRefs == InitReady /\ [][NextRefs]_vars /\ FairRefs
\* ---- the outcomes of the dispatch surface: one host thread calling the
\* operations of r1 (created, every routine registered) and of r2 (constructed,
\* not yet created: no routine), the guest callables returning values or throwing.

\* The values the guest callable of an operation is made to return: the
\* operations that ignore the value get one, the others the values they tell apart.
ScriptValues(op) ==
    CASE op \in {"Tick", "TriggerEvent", "RemoveRef"} -> {Undefined}
      [] op = "DuplicateRef" ->
            {Undefined, View(<<>>, 0, 0),
             Number(7, 0), Number(-1, 0), Number(1, -1), Number(1, 31), Number(-1, 31)}
      [] OTHER ->
            {Undefined, Number(7, 0),
             View(<<>>, 0, 0), View(<<146, 1, 2>>, 0, 3), View(<<1, 145, 2>>, 1, 2),
             View(<<146, 1>>, 0, 2), View(<<5>>, 0, 1)}

InitSurface ==
    /\ build \in {"server", "client"}
    /\ ctx = [r \in Runtimes |-> IF r = "r1" THEN "ready" ELSE "new"]
    /\ routine = [r \in Runtimes |-> IF r = "r1" THEN AllRoutines ELSE NoRoutines]
    /\ firstReg = [r \in Runtimes |-> IF r = "r1" THEN AllRoutines ELSE NoRoutines]
    /\ lastReg = [rt |-> "r1", kind |-> "unhandledRejection", fn |-> "f1"]
    /\ stack = [t \in Threads |-> <<>>]
    /\ g_currentV8Runtime = [t \in Threads |-> NoRuntime]
    /\ lockOwner = NoThread
    /\ g_isV8InGc = 0
    /\ gcMark = <<>>
    /\ est = [e \in Refs |-> "none"]
    /\ handle = [e \in Refs |-> "empty"]
    /\ reach = [e \in Refs |-> FALSE]
    /\ g_cleanUpFuncRefs = <<>>
    /\ tickIdx = 0
    /\ tickHasLock = FALSE
    /\ pumped = FALSE
    /\ draining = FALSE
    /\ ret = NoReturn
    /\ boot = [r \in Runtimes |-> NoBoot]
    /\ refStr = [e \in Refs |-> NoRef]
    /\ m_stringValues = [r \in Runtimes |-> [i \in 0..(NumStringValues - 1) |-> 0]]
    /\ m_curStringValue = [r \in Runtimes |-> 0]
    /\ acquired = [r \in Runtimes |-> 0]

\* The routine (or the script) of the innermost activation of t has ended.
Ended(t) == stack[t] # <<>> /\ Top(t).res.how \notin {"none", "loaded"}

NextSurface ==
    \/ \E op \in DispatchOps : Depth("t1") < MaxSurfaceDepth /\ EnterDispatch("t1", "r1", op)
    \/ \E r \in Runtimes, op \in DispatchOps : DispatchUnset("t1", r, op)
    \/ \E op \in DispatchOps : \E res \in GuestResults(ScriptValues(op)) :
            stack["t1"] # <<>> /\ Top("t1").op = op /\ RoutineEnds("t1", res)
    \/ Ended("t1") /\ ScopeCheckpoint("t1")
    \/ ScopeRestore("t1")

SpecSurface == InitSurface /\ [][NextSurface]_vars

\* ---- Create and its system scripts: one host thread creating the two
\* runtimes, the second possibly from a native called by a script of the first.
MaxCreateDepth == 2

NextCreate ==
    \/ \E r \in Runtimes : AtTopLevel("t1") /\ Create(r)
    \/ \E r \in Runtimes : Depth("t1") < MaxCreateDepth /\ LoadSystemFile("t1", r)
    \/ \E load \in {"openFails", "compileFails", "loaded"} : ScriptLoads("t1", load)
    \/ \E res \in GuestResults({Undefined}) : ScriptRuns("t1", res)
    \/ Ended("t1") /\ ScopeCheckpoint("t1")
    \/ ScopeRestore("t1")

SpecCreate == Init /\ [][NextCreate]_vars

\* ---- references made and invoked: guest code of r1, entered by an event,
\* makes references of several identifiers and invokes them with several
\* payloads; the host answers with a buffer, with none, or with a failure.
HostResults ==
    {Outcome("hostOk", v, "") : v \in {NullBuffer, Buffer(<<>>), Buffer(<<9, 8>>)}}
        \cup {Outcome("hostFails", NoValue, text) : text \in {"untouched", "no such ref"}}

NextInvoke ==
    \/ AtTopLevel("t1") /\ EnterDispatch("t1", "r1", "TriggerEvent")
    \/ \E id \in {Foo, Id("string", <<102, 0, 111>>), Id("bytes", <<1, 2>>),
                  Id("bytes", <<1, 0, 2>>), Id("other", <<>>)}, created \in BOOLEAN :
            V8_MakeFunctionReference("t1", id, created)
    \/ \E e \in Refs : V8_InvokeFunctionReference("t1", e)
    \/ \E arg \in {View(<<>>, 0, 0), View(<<1, 145, 2>>, 1, 2)}, res \in HostResults : HostInvokeFunctionReference("t1", arg, res)
    \/ Ended("t1") /\ PlainReturn("t1")
    \/ ScopeCheckpoint("t1")
    \/ ScopeRestore("t1")

SpecInvoke == InitReady /\ [][NextInvoke]_vars

\* ---- the numbers guest code of r1 passes to a native: whole numbers and
\* fractions of every size up to 5 * 2^MaxExponent, NaN and the infinities.
MaxExponent == 64

ScriptNumbers ==
    {Number(0, 0), NaN, Infinity(1), Infinity(-1)}
        \cup {Number(n, e) : n \in {-5, -3, -1, 1, 3, 5}, e \in (0 - 3)..MaxExponent}

NextPush ==
    \/ AtTopLevel("t1") /\ EnterDispatch("t1", "r1", "TriggerEvent")
    \/ \E v \in ScriptNumbers : PushArgument("t1", v)
    \/ ScopeCheckpoint("t1")
    \/ ScopeRestore("t1")

SpecPush == InitReady /\ [][NextPush]_vars

\* ---- native invocations: guest code of r1, entered by an event, invokes
\* natives with up to MaxArgs arguments of every kind but strings; the native
\* reports up to three results.
MaxArgs == 2

NativeArguments ==
    {Number(7, 0), Number(1, -1), NaN, Undefined, NullBuffer,
     Value("boolean", 1, 0, <<>>, 0, 0), Value("external", 0, 0, <<>>, 0, 0),
     Value("symbol", 0, 0, <<>>, 0, 0), Value("bigint", 7, 0, <<>>, 0, 0),
     Value("booleanobject", 0, 0, <<>>, 0, 0), View(<<1, 145, 2>>, 1, 2),
     Array(<<>>), Array(<<Number(1, 0)>>), Array(<<Number(1, 0), Number(3, -1)>>),
     Array(<<Number(1, 0), Number(3, -1), NaN>>),
     Array(<<Number(1, 0), Number(3, -1), Number(5, 0), Number(7, 0)>>),
     Array(<<Number(1, 0), Number(3, -1), Number(5, 0), Number(7, 0), Number(1, 3)>>),
     Array(<<Number(1, 0), Undefined>>), Array(<<Number(1, 0), Number(3, 0), Array(<<>>)>>),
     Array(<<Undefined, Number(1, 0), Number(3, 0), Number(5, 0)>>),
     Object(<<>>), Object(<<Number(7, 0)>>), Object(<<Number(1, 32)>>), Object(<<Number(1, 31)>>),
     Object(<<Number(3, -1)>>), Object(<<NaN>>), Object(<<Undefined>>),
     Object(<<Value("throws", 0, 0, <<>>, 0, 0)>>)}

NativeResults ==
    {<<>>, <<Arg("int32", Number(7, 0))>>, <<Arg("vector", <<Number(1, 0), Number(3, 0), Number(5, 0)>>)>>,
     <<Arg("int32", Number(7, 0)), Arg("cstr", NullBuffer)>>,
     <<Arg("vector", <<Number(1, 0), Number(3, 0), Number(5, 0)>>), Arg("int32", Number(7, 0)),
       Arg("int32", Number(-1, 0))>>}

NextNative ==
    \/ AtTopLevel("t1") /\ EnterDispatch("t1", "r1", "TriggerEvent")
    \/ V8_InvokeNative("t1")
    \/ \E arg \in NativeArguments : ArgCount("t1") < MaxArgs /\ ContextPushArgument("t1", arg)
    \/ \E results \in NativeResults : ContextInvoke("t1", results)
    \/ Ended("t1") /\ PlainReturn("t1")
    \/ ScopeCheckpoint("t1")
    \/ ScopeRestore("t1")

SpecNative == InitReady /\ [][NextNative]_vars

\* ---- the string arena: guest code of r1 invokes natives with up to
\* MaxStringArgs string arguments each, MaxStrings strings in all.
MaxStringArgs == 51
MaxStrings == 102

NextArena ==
    \/ AtTopLevel("t1") /\ EnterDispatch("t1", "r1", "TriggerEvent")
    \/ V8_InvokeNative("t1")
    \/ /\ ArgCount("t1") < MaxStringArgs
       /\ acquired["r1"] < MaxStrings
       /\ ContextPushArgument("t1", Value("string", 0, 0, <<102>>, 0, 1))
    \/ ContextInvoke("t1", <<>>)
    \/ Ended("t1") /\ PlainReturn("t1")
    \/ ScopeCheckpoint("t1")
    \/ ScopeRestore("t1")

SpecArena == InitReady /\ [][NextArena]_vars

\* ---- event payloads: the host triggers events on either runtime with
\* payloads of up to MaxPayload bytes, the whole of the caller's bytes or a
\* prefix of them, and the guest's event function writes to what it was given.
MaxPayload == 2

NextEvent ==
    \/ \E r \in Runtimes : AtTopLevel("t1") /\ EnterDispatch("t1", r, "TriggerEvent")
    \/ \E len \in 0..MaxPayload : \E eventPayload \in [1..len -> {0, 65, 255}] :
          \E payloadSize \in 0..len : EventRoutine("t1", eventPayload, payloadSize)
    \/ \E i \in 0..MaxPayload, b \in {0, 66} : GuestWrite("t1", i, b)
    \/ ScopeCheckpoint("t1") /\ Top("t1").call # <<>>
    \/ ScopeRestore("t1")

SpecEvent == InitReady /\ [][NextEvent]_vars

\* ---- initialized pointer fields: guest code of r1 makes integer and float
\* fields from 0 and from the numbers n * 2^p with |p| up to MaxShift.
MaxShift == 3

NextPointer ==
    \/ AtTopLevel("t1") /\ EnterDispatch("t1", "r1", "TriggerEvent")
    \/ \E field \in {"PointerValueInteger", "PointerValueFloat"} :
          \E arg \in {Number(0, 0)} \cup {Number(n, p) : n \in {-7, -3, -1, 1, 3, 5},
                                                         p \in (0 - MaxShift)..MaxShift} :
             V8_GetPointerField("t1", field, arg)
    \/ ScopeCheckpoint("t1")
    \/ ScopeRestore("t1")

SpecPointer == InitReady /\ [][NextPointer]_vars

\* ------------------------------------------------------------- properties
\* The activations that invoke a registered routine.
RoutineOps == DispatchOps \cup {"PromiseReject"}

\* C1: once a routine of a kind is registered on a runtime, every later
\* registration of that kind leaves the slot as it is: a set slot holds the
\* callable of the first registration, and every activation of a dispatch
\* operation (or of the promise-rejection callback) invokes that callable.
C1_FirstRegistrationWins ==
    /\ \A r \in Runtimes, k \in Kinds :
          routine[r][k] # Unset => routine[r][k] = firstReg[r][k]
    /\ \A t \in Threads : \A i \in 1..Len(stack[t]) :
          stack[t][i].op \in RoutineOps =>
              stack[t][i].fn = firstReg[stack[t][i].rt][KindOf(stack[t][i].op)]

\* A script registered "f1" as the tick routine, the latest registration call
\* asked for "f2", and Tick is invoking "f1".
C1_SecondRegistrationIgnored ==
    /\ lastReg = [rt |-> "r1", kind |-> "tick", fn |-> "f2"]
    /\ routine["r1"]["tick"] = "f1"
    /\ \E i \in 1..Len(stack["t1"]) :
          stack["t1"][i].op = "Tick" /\ stack["t1"][i].fn = "f1"

\* C2: the trampoline never runs on an entry that was freed (or queued for
\* release): the entry of every open trampoline activation is allocated, holds
\* its wrapper and is not queued; and an entry is freed only after its handle
\* was cleared.
C2_NoInvokeAfterFree ==
    /\ \A t \in Threads : \A i \in 1..Len(stack[t]) :
          stack[t][i].op = "InvokeRef" =>
              /\ est[stack[t][i].ref] = "live"
              /\ handle[stack[t][i].ref] = "weak"
              /\ \A q \in 1..Len(g_cleanUpFuncRefs) : g_cleanUpFuncRefs[q] # stack[t][i].ref
    /\ \A e \in Refs : est[e] \in {"freed", "doublefree"} => handle[e] = "empty"

\* One entry has been finalized and freed by a drain, and the trampoline of
\* another entry is running.
C2_InvokeBesideFreed ==
    /\ \E e \in Refs : est[e] = "freed"
    /\ \E t \in Threads : \E i \in 1..Len(stack[t]) : stack[t][i].op = "InvokeRef"

\* The step by which the drain handler returns.
DrainReturns == NextHandler = "drain" /\ tickIdx' # tickIdx
\* A step of the drain handler: one turn of its loop, or its return.
DrainStep == NextHandler = "drain" /\ (tickIdx' # tickIdx \/ (draining' /\ est' # est))

\* C3: a drain pops and frees every queued entry and returns with the queue
\* empty; whatever the sequence of MakeReference, finalization and drains (one
\* per tick of each resource manager), the only step that shortens the queue
\* frees its head, no entry is freed twice, and a freed entry is one the
\* collector finalized (its handle is cleared and no guest code holds its wrapper).
C3_DrainFreesQueue ==
    /\ [](\A e \in Refs : /\ est[e] # "doublefree"
                          /\ est[e] = "freed" => (handle[e] = "empty" /\ ~Reachable(e)))
    /\ [][DrainReturns => g_cleanUpFuncRefs' = <<>>]_vars
    /\ [][Len(g_cleanUpFuncRefs') < Len(g_cleanUpFuncRefs) =>
            /\ g_cleanUpFuncRefs' = Tail(g_cleanUpFuncRefs)
            /\ est[Head(g_cleanUpFuncRefs)] = "live"
            /\ est'[Head(g_cleanUpFuncRefs)] = "freed"]_vars

\* The drain of this tick has returned: it freed every entry there is and the
\* queue is empty.
C3_AllFreedQueueEmpty ==
    /\ tickIdx > 0
    /\ OnTick[tickIdx].fn = "drain"
    /\ g_cleanUpFuncRefs = <<>>
    /\ \A e \in Refs : est[e] = "freed"

\* The collector has finalized the wrapper of e and the entry is not freed yet.
Finalized(e) == est[e] = "live" /\ handle[e] = "empty"

\* C4: with the host ticking and every call running to completion, every entry
\* whose wrapper the collector finalized is eventually freed, and no later than
\* the return of the first drain after the finalization: a drain never returns
\* leaving a finalized entry behind.
C4_FinalizedEventuallyFreed ==
    /\ \A e \in Refs : Finalized(e) ~> (est[e] = "freed")
    /\ [][DrainReturns => \A e \in Refs : ~Finalized(e)']_vars

\* One entry has been freed by a drain while another, finalized since, waits for
\* the next one.
C4_FreedAndPending ==
    /\ \E e \in Refs : est[e] = "freed"
    /\ \E e \in Refs : Finalized(e)

\* C5 as stated: the drain executes only where no scope is open on the draining
\* thread and that thread does not hold the engine lock.
C5_DrainWithoutLock ==
    draining => (stack[TickThread] = <<>> /\ ~IsLocked(TickThread))

\* C5: every step of the drain handler is taken by the tick thread with no
\* activation of the bridge open on it, while it holds the engine lock through
\* the Locker the first handler of the tick constructed, and after that handler
\* pumped the message loop (a build without node) or skipped the pump (a build
\* with node): the drain follows the pump and never precedes it.
C5_DrainInsideTickLock ==
    [][DrainStep =>
            /\ stack[TickThread] = <<>>
            /\ IsLocked(TickThread)
            /\ OnTick[tickIdx].fn = "lockAndPump"
            /\ pumped = (build = "client")]_vars

\* The drain loop has freed an entry, after the pump, with the lock held by the
\* tick's own Locker.
C5_DrainingUnderLock ==
    /\ draining
    /\ stack[TickThread] = <<>>
    /\ IsLocked(TickThread)
    /\ tickHasLock
    /\ pumped
\* The innermost environment scope among the first n activations of t (0: none),
\* and its runtime.
InnermostScope(t, n) ==
    LET S == {i \in 1..n : IsEnvScope(stack[t][i].cls)}
    IN IF S = {} THEN 0 ELSE CHOOSE i \in S : \A j \in S : j <= i
ScopeRuntime(t, n) ==
    IF InnermostScope(t, n) = 0 THEN NoRuntime ELSE stack[t][InnermostScope(t, n)].rt

\* C6 as stated: of the environment scopes nested on a thread only the outermost
\* performs a microtask checkpoint when it exits (and it does, unless a GC pass
\* is in progress); the exit of a nested scope performs none.
C6_CheckpointOnlyAtOutermostExit ==
    \A t \in Threads : \A i \in 1..Len(stack[t]) :
        stack[t][i].ph = "exit" =>
            /\ stack[t][i].did => InnermostScope(t, i - 1) = 0
            /\ (InnermostScope(t, i - 1) = 0 /\ g_isV8InGc = 0) => stack[t][i].did

\* C7: no microtask checkpoint is performed while a GC pass is in progress: in
\* every state in which the exit of a scope has just performed its checkpoint
\* the in-GC counter is zero.
C7_NoCheckpointInGc ==
    \A t \in Threads : \A i \in 1..Len(stack[t]) :
        (stack[t][i].ph = "exit" /\ stack[t][i].did) => g_isV8InGc = 0

\* A scope entered from inside a GC pass is exiting and has skipped its checkpoint.
C7_ExitInsideGcSkipped ==
    \E t \in Threads :
        /\ g_isV8InGc > 0
        /\ stack[t] # <<>>
        /\ IsEnvScope(Top(t).cls)
        /\ Top(t).ph = "exit"
        /\ ~Top(t).did

\* C8: on every thread the current runtime is the runtime of the innermost open
\* environment scope, or the null it was before the first entry when none is
\* open; and every open scope has saved the value that was current before its
\* entry, which its exit puts back.
C8_CurrentIsInnermost ==
    /\ \A t \in Threads : g_currentV8Runtime[t] = ScopeRuntime(t, Depth(t))
    /\ \A t \in Threads : \A i \in 1..Len(stack[t]) :
          IsEnvScope(stack[t][i].cls) => stack[t][i].last = ScopeRuntime(t, i - 1)

\* A scope of r2 entered inside a scope of r1 is exiting: r2 is current and r1
\* is what the exit will put back.
C8_NestedOtherRuntime ==
    \E t \in Threads :
        /\ Depth(t) = 2
        /\ IsEnvScope(stack[t][1].cls) /\ stack[t][1].rt = "r1"
        /\ IsEnvScope(stack[t][2].cls) /\ stack[t][2].rt = "r2"
        /\ stack[t][2].ph = "exit"
        /\ g_currentV8Runtime[t] = "r2"
        /\ RestoredRuntime(stack[t][2]) = "r1"

\* C9: a thread that holds the engine lock inside a scope can enter a further
\* scope, for either runtime, at once; its innermost activation can always take
\* its next step; the thread holds the lock for as long as any locking scope of
\* its is open, and only its outermost acquisition gives the lock up.
C9_ReentrantLock ==
    /\ \A t \in Threads : (Running(t) /\ IsLocked(t) /\ Depth(t) < MaxDepth) =>
          \A r \in Runtimes : ENABLED EnterDispatch(t, r, "TriggerEvent")
    /\ \A t \in Threads : stack[t] # <<>> =>
          ENABLED (ScopeCheckpoint(t) \/ ScopeRestore(t) \/ PlainReturn(t) \/ GCEpilogue(t))
    /\ \A t \in Threads : \A i \in 1..Len(stack[t]) :
          /\ Locks(stack[t][i].cls) => lockOwner = t
          /\ stack[t][i].hasLock =>
                /\ \A j \in 1..(i - 1) : ~Locks(stack[t][j].cls)
                /\ ~(t = TickThread /\ tickHasLock)
    /\ \A t \in Threads : lockOwner = t =>
          \/ t = TickThread /\ tickHasLock
          \/ \E i \in 1..Len(stack[t]) : stack[t][i].hasLock

\* host -> script -> host -> script on one thread: a locking scope nested in
\* the scope that took the lock is exiting, and the thread still holds the lock.
C9_NestedExitKeepsLock ==
    \E t \in Threads :
        /\ Depth(t) = 2
        /\ stack[t][1].hasLock
        /\ stack[t][2].cls = "V8Push"
        /\ ~stack[t][2].hasLock
        /\ stack[t][2].ph = "exit"
        /\ lockOwner = t

\* C10 as stated: every activation of a dispatch operation, EmitWarning
\* included, runs inside an environment scope it entered for its runtime, so
\* while it is the innermost activation its runtime is the current one.
C10_EveryDispatchEntersScope ==
    \A t \in Threads : \A i \in 1..Len(stack[t]) :
        stack[t][i].op \in DispatchOps \cup {"EmitWarning"} =>
            /\ IsEnvScope(stack[t][i].cls)
            /\ i = Depth(t) => g_currentV8Runtime[t] = stack[t][i].rt
\* C11: a dispatch operation called while its routine slot is unset invokes no
\* guest code, enters no scope and performs no checkpoint (no activation is
\* pushed, the current runtime and the lock stay as they are), reports nothing
\* and returns FX_S_OK, DuplicateRef leaving -1 and CallRef a null buffer; and
\* no activation of a dispatch operation is ever entered on an unset slot.
C11_UnsetSlotIsNoOp ==
    /\ [](ret.cls = "none" /\ ret.op \in DispatchOps =>
            /\ ret.hr = "FX_S_OK" /\ ~ret.raised
            /\ ret.traces = 0 /\ ret.frames = <<>> /\ ret.res = NoOutcome
            /\ ret.op = "DuplicateRef" => ret.out = Int32(-1)
            /\ ret.op = "CallRef" => ret.out = NullBuffer
            /\ ret.op \notin {"DuplicateRef", "CallRef"} => ret.out = NoValue)
    /\ [][(ret' # ret /\ ret'.cls = "none") =>
            /\ routine[ret'.rt][KindOf(ret'.op)] = Unset
            /\ UNCHANGED <<stack, g_currentV8Runtime, lockOwner>>]_vars
    /\ [][\A t \in Threads :
            (Depth(t)' > Depth(t) /\ Top(t)'.op \in DispatchOps) =>
                routine[Top(t)'.rt][KindOf(Top(t)'.op)] # Unset]_vars

\* DuplicateRef on the runtime that has no routine has returned, from inside a
\* native callback of the other runtime: -1, and the activation is still open.
C11_DuplicateRefUnset ==
    /\ ret.op = "DuplicateRef" /\ ret.rt = "r2" /\ ret.cls = "none"
    /\ ret.out = Int32(-1)
    /\ Running("t1")
\* The step by which an operation that entered an environment scope returns:
\* the scope has performed its exit, the activation is popped and the current
\* runtime is what it was before the entry.
ReturnsThroughScopeExit ==
    (ret' # ret /\ ret'.cls # "none") =>
        \E t \in Threads :
            /\ stack[t] # <<>>
            /\ stack'[t] = Pop(stack[t])
            /\ Top(t).ph = "exit"
            /\ IsEnvScope(Top(t).cls)
            /\ g_currentV8Runtime'[t] = Top(t).last

\* C12: when the guest callable invoked by Tick, TriggerEvent or RemoveRef
\* throws, the exception is caught inside the operation (nothing is raised to
\* the host), exactly one report goes to the trace sink, the operation returns
\* FX_S_OK, and it returns through the exit of its scope; a callable that
\* returns normally is reported nothing.
C12_ExceptionCaughtAndReported ==
    /\ [](ret.op \in {"Tick", "TriggerEvent", "RemoveRef"} /\ ret.cls # "none" =>
            /\ ret.hr = "FX_S_OK" /\ ~ret.raised
            /\ ret.res.how = "throws" => ret.traces = 1
            /\ ret.res.how = "returns" => ret.traces = 0)
    /\ [][ReturnsThroughScopeExit]_vars

\* Tick has returned to the host's top level after its callable threw: one report.
C12_TickThrewOnce ==
    /\ ret.op = "Tick" /\ ret.res.how = "throws"
    /\ ret.traces = 1 /\ ret.hr = "FX_S_OK"
    /\ stack["t1"] = <<>>

\* C13: CallRef returns FX_S_OK with a null buffer when the call-ref routine's
\* callable throws or returns something that is no ArrayBufferView, and with a
\* buffer holding exactly the bytes of the view (its window, not its whole
\* backing buffer) when it returns a view.
C13_CallRefResult ==
    (ret.op = "CallRef" /\ ret.cls # "none") =>
        /\ ret.hr = "FX_S_OK" /\ ~ret.raised
        /\ (ret.res.how = "throws" \/ ret.res.val.type # "view") => ret.out = NullBuffer
        /\ (ret.res.how = "returns" /\ ret.res.val.type = "view") =>
              /\ ret.out.type = "buffer"
              /\ ret.out.buf = [i \in 1..ret.res.val.len |-> ret.res.val.buf[ret.res.val.off + i]]

\* The callable returned a one-byte-offset view of two bytes on a three-byte
\* buffer: CallRef gave back those two bytes.
C13_CopiedWindow ==
    /\ ret.op = "CallRef"
    /\ ret.res.val = View(<<1, 145, 2>>, 1, 2)
    /\ ret.out.buf = <<145, 2>>

\* C14: DuplicateRef yields -1 when the duplicate-ref routine's callable throws
\* or returns something that is not a 32-bit integer (undefined, a view, 0.5,
\* 2^31), and exactly the returned integer otherwise (7, -1, -2^31).
C14_DuplicateRefResult ==
    (ret.op = "DuplicateRef" /\ ret.cls # "none") =>
        /\ ret.hr = "FX_S_OK" /\ ~ret.raised
        /\ IF ret.res.how = "returns"
              /\ ret.res.val \in {Number(7, 0), Number(-1, 0), Number(-1, 31)}
           THEN ret.out = ret.res.val
           ELSE ret.out = Int32(-1)

\* The callable returned 7 and DuplicateRef yielded 7.
C14_Seven ==
    /\ ret.op = "DuplicateRef"
    /\ ret.res = Outcome("returns", Number(7, 0), "")
    /\ ret.out = Number(7, 0)

\* C15 as stated: WalkStack gives the visitor the frames of the payload in
\* payload order, and whatever the payload, decodable or not, it returns FX_S_OK
\* and raises nothing to its caller.
C15_WalkStackNeverRaises ==
    (ret.op = "WalkStack" /\ ret.cls # "none") =>
        /\ ret.hr = "FX_S_OK"
        /\ ~ret.raised
        /\ ret.res.val = View(<<146, 1, 2>>, 0, 3) => ret.frames = << <<1>>, <<2>> >>
\* C16 as stated: once Destroy has run on a runtime, all seven of its routine
\* slots are unset and its persisted context is released.
C16_DestroyClearsAllSlots ==
    \A r \in Runtimes :
        ctx[r] = "destroyed" => \A k \in Kinds : routine[r][k] = Unset

\* C17: Create runs the natives script first and then console.js, timer.js,
\* msgpack.js, eventemitter2.js and main.js in that order, each after the one
\* before has returned; the first script that fails to open, to compile or to
\* run makes Create return that failure (the host's code for a failure to open,
\* FX_E_INVALIDARG otherwise) at the very step in which the scope of the failed
\* load is exited, and nothing is loaded after Create has returned.
C17_ScriptOrder ==
    \A r \in Runtimes :
        \E n \in 0..6 :
            boot[r].log = SubSeq(<<"natives", "console.js", "timer.js", "msgpack.js",
                                   "eventemitter2.js", "main.js">>, 1, n)

C17_FailureReturned ==
    \A r \in Runtimes :
        (boot[r].hr = "none" /\ boot'[r].hr # "none") =>
            \E t \in Threads :
                /\ stack[t] # <<>>
                /\ stack'[t] = Pop(stack[t])
                /\ Top(t).ph = "exit"
                /\ g_currentV8Runtime'[t] = Top(t).last
                /\ Top(t).rt = r
                /\ Top(t).fn = boot[r].log[Len(boot[r].log)]
                /\ boot'[r].log = boot[r].log
                /\ CASE Top(t).res.how = "openFails" -> boot'[r].hr = Top(t).res.text
                     [] Top(t).res.how \in {"compileFails", "throws"} -> boot'[r].hr = "FX_E_INVALIDARG"
                     [] OTHER -> boot'[r].hr = "FX_S_OK" /\ Len(boot[r].log) = 6

C17_NothingAfterReturn ==
    \A r \in Runtimes :
        /\ boot[r].hr # "none" => boot'[r] = boot[r]
        /\ boot'[r].log # boot[r].log =>
                \A t \in Threads : \A i \in 1..Len(stack[t]) :
                    ~(stack[t][i].rt = r /\ stack[t][i].op = "LoadSystemFile")

C17_CreateLoadsInOrder ==
    /\ []C17_ScriptOrder
    /\ [][C17_FailureReturned]_vars
    /\ [][C17_NothingAfterReturn]_vars

\* timer.js threw while it ran: Create of r1 has returned FX_E_INVALIDARG and
\* msgpack.js, eventemitter2.js and main.js were never loaded.
C17_ThirdScriptFailed ==
    /\ boot["r1"].log = <<"natives", "console.js", "timer.js">>
    /\ boot["r1"].hr = "FX_E_INVALIDARG"
    /\ ret.res.how = "throws" /\ ret.traces = 1
    /\ stack["t1"] = <<>>

\* C18 as stated: the trampoline of a reference made by MakeReference(id) gives
\* the host exactly the identifier id.
C18_ForwardsExactId ==
    ret.op = "InvokeRef" => ret.call.id = refStr[ret.call.e].arg.bytes

\* C18, amended: invoking a reference made by MakeReference(id) with payload P
\* calls the host once with the identifier as a C string (id up to its first
\* zero byte; empty when id is neither a string nor a Uint8Array) and with
\* exactly the bytes of P; when the host succeeds the guest gets a Uint8Array
\* equal to the host's result bytes, of length zero when the host gave no buffer.
C18_ForwardsCStringIdAndPayload ==
    /\ [](ret.op = "InvokeRef" =>
            LET b == refStr[ret.call.e].arg.bytes
                zeros == {i \in 1..Len(b) : b[i] = 0}
                first == CHOOSE i \in zeros : \A j \in zeros : i <= j
            IN /\ ret.call.id = IF zeros = {} THEN b ELSE SubSeq(b, 1, first - 1)
               /\ ret.call.payload =
                      [i \in 1..ret.call.arg.len |-> ret.call.arg.buf[ret.call.arg.off + i]]
               /\ ret.res.how = "hostOk" =>
                      /\ ret.error = "none"
                      /\ ret.out.type = "view" /\ ret.out.off = 0
                      /\ ret.out.buf = ret.res.val.buf
                      /\ ret.out.len = Len(ret.res.val.buf))
    /\ [][\A t \in Threads :
            (stack[t] # <<>> /\ Top(t).op = "InvokeRef" /\ Top(t).res # NoOutcome
                /\ stack'[t] # stack[t])
            => stack'[t] = Pop(stack[t])]_vars

\* A reference "foo" was invoked with the two bytes of an offset view; the host
\* got ("foo", those bytes) and its answer <<9, 8>> came back to the guest.
C18_FooForwarded ==
    /\ ret.op = "InvokeRef"
    /\ refStr[ret.call.e].arg = Foo
    /\ ret.call.id = <<102, 111, 111>>
    /\ ret.call.payload = <<145, 2>>
    /\ ret.out = View(<<9, 8>>, 0, 2)

\* C19: when the host's InvokeFunctionReference fails, the trampoline leaves a
\* pending script Error whose text is the host's last-error text ("Unknown"
\* when the host stored none) and sets no return value; when it succeeds no
\* error is raised.
C19_HostFailureRaises ==
    ret.op = "InvokeRef" =>
        /\ ret.res.how = "hostFails" =>
              /\ ret.out = NoValue
              /\ ret.error = (IF ret.res.text = "untouched" THEN "Unknown" ELSE ret.res.text)
        /\ ret.res.how = "hostOk" => ret.error = "none"

\* The host failed with the text "no such ref" and the guest got that Error.
C19_ErrorWithHostText ==
    /\ ret.op = "InvokeRef"
    /\ ret.res = Outcome("hostFails", NoValue, "no such ref")
    /\ ret.error = "no such ref"
    /\ ret.out = NoValue

\* C20 as stated: a number with an exact 64-bit integer representation (a whole
\* number in [-2^63, 2^63)) is pushed as that 64-bit integer, every other number
\* is pushed as the 64-bit float it is.
C20_IntegerIffExact ==
    ret.op = "PushArgument" =>
        LET v == ret.res.val
            exact == /\ v.type = "number"
                     /\ v.n = 0 \/ v.p >= 0
                     /\ v.n = 0 \/ Bits(v.n) + v.p <= 63 \/ (v.n = -1 /\ v.p = 63)
        IN IF exact
           THEN ret.out = Int64(v.n, v.p, 0)
           ELSE ret.out = v

\* C29: the finalization callback only clears the entry's handle and enqueues
\* the entry: the step that lengthens the deferred-release queue appends one
\* entry whose handle it empties and frees nothing, so that no queued entry
\* has a non-empty handle, and an entry is freed only outside any
\* garbage-collection pass, by the drain of the tick.
C29_CallbackOnlyResetsAndQueues ==
    /\ [](\A i \in 1..Len(g_cleanUpFuncRefs) : handle[g_cleanUpFuncRefs[i]] = "empty")
    /\ [][Len(g_cleanUpFuncRefs') > Len(g_cleanUpFuncRefs) =>
            \E e \in Refs :
                /\ g_cleanUpFuncRefs' = Append(g_cleanUpFuncRefs, e)
                /\ g_isV8InGc > 0
                /\ handle[e] = "weak" /\ handle'[e] = "empty"
                /\ est' = est]_vars
    /\ [][\A e \in Refs :
            (est'[e] # est[e] /\ est'[e] \in {"freed", "doublefree"}) =>
                g_isV8InGc = 0 /\ g_cleanUpFuncRefs # <<>> /\ Head(g_cleanUpFuncRefs) = e]_vars

\* A pass is still going on and its callback has queued entry 1, handle
\* emptied, entry not freed.
C29_QueuedInsideGc ==
    /\ g_isV8InGc > 0
    /\ g_cleanUpFuncRefs = <<1>>
    /\ handle[1] = "empty"
    /\ est[1] = "live"

\* C30 as stated: the exit of a scope restores the previous current-runtime
\* pointer first and performs the checkpoint last, so that once the checkpoint
\* of an exiting scope is done the pointer is the one saved at entry.
C30_RestoredBeforeCheckpoint ==
    \A t \in Threads :
        (stack[t] # <<>> /\ Top(t).ph = "exit") => g_currentV8Runtime[t] = Top(t).last

\* C30, amended: the checkpoint is the first action of the exit and is performed
\* while the exited runtime is still the current one; the pointer saved at
\* entry is restored only after it, in the step that ends the exit (the lock
\* is given up last), and that step performs no checkpoint.
C30_CheckpointBeforeRestore ==
    /\ [](\A t \in Threads :
            (stack[t] # <<>> /\ Top(t).ph = "exit") => g_currentV8Runtime[t] = Top(t).rt)
    /\ [][\A t \in Threads :
            (stack[t] # <<>> /\ IsEnvScope(Top(t).cls) /\ stack'[t] = Pop(stack[t])) =>
                /\ Top(t).ph = "exit"
                /\ g_currentV8Runtime'[t] = Top(t).last]_vars
    /\ [][\A t \in Threads :
            (stack[t] # <<>> /\ Top(t).ph = "run" /\ Len(stack'[t]) = Len(stack[t])
                /\ stack'[t] # stack[t] /\ stack'[t][Depth(t)].ph = "exit") =>
                g_currentV8Runtime'[t] = g_currentV8Runtime[t]]_vars

\* A scope of r2 nested in a scope of r1 has done its checkpoint and r2 is
\* still current: r1 has not been restored yet.
C30_CheckpointDoneNotRestored ==
    /\ Depth("t1") = 2
    /\ Top("t1").ph = "exit" /\ Top("t1").did
    /\ Top("t1").rt = "r2" /\ Top("t1").last = "r1"
    /\ g_currentV8Runtime["t1"] = "r2"

\* C28: the string arena is a ring of 50 slots.  The cursor is always in 0..49;
\* after k acquisitions a runtime owns exactly the last min(k, 50) strings it
\* acquired; when the native function is invoked, the strings of an invocation
\* with at most 50 string arguments are all still owned; and the 51st
\* acquisition releases the 1st string.
C28_ArenaIsRingOfFifty ==
    /\ [](\A r \in Runtimes :
            LET k == acquired[r]
                owned == {m_stringValues[r][i] : i \in 0..(NumStringValues - 1)} \ {0}
            IN /\ m_curStringValue[r] \in 0..49
               /\ owned = {s \in 1..k : s > k - 50}
               /\ Cardinality(owned) = IF k < 50 THEN k ELSE 50)
    /\ [](\A t \in Threads :
            (/\ stack[t] # <<>>
             /\ Top(t).op = "InvokeNative"
             /\ NativeCall(Top(t)).invoked
             /\ Len(NativeCall(Top(t)).args) <= 50)
            => \A i \in 1..Len(NativeCall(Top(t)).pushes) :
                  \A a \in {NativeCall(Top(t)).pushes[i][j] : j \in 1..Len(NativeCall(Top(t)).pushes[i])} :
                     a.kind = "string"
                     => \E slot \in 0..(NumStringValues - 1) : m_stringValues[Top(t).rt][slot] = a.v)
    /\ [][\A r \in Runtimes :
            (acquired[r] = 50 /\ acquired'[r] = 51)
            => /\ \E slot \in 0..(NumStringValues - 1) : m_stringValues[r][slot] = 1
               /\ \A slot \in 0..(NumStringValues - 1) : m_stringValues'[r][slot] # 1
               /\ \E slot \in 0..(NumStringValues - 1) : m_stringValues'[r][slot] = 51]_vars

\* The native of an invocation with 50 string arguments has been invoked after
\* the ring wrapped: 60 strings were acquired and the cursor is at slot 10.
C28_FiftyStringsInvokedAfterWrap ==
    /\ stack["t1"] # <<>>
    /\ Top("t1").op = "InvokeNative"
    /\ NativeCall(Top("t1")).invoked
    /\ Len(NativeCall(Top("t1")).args) = 50
    /\ acquired["r1"] = 60
    /\ m_curStringValue["r1"] = 10
    /\ m_stringValues["r1"][9] = 60
    /\ m_stringValues["r1"][10] = 11

\* C21: for an array of 2, 3 or 4 elements that are all numbers PushArgument
\* succeeds and appends exactly that many floating-point arguments, the
\* elements in their order.
C21_VectorPushedInOrder ==
    \A c \in NativeCalls : \A i \in 1..Len(c.args) :
        LET a == c.args[i] IN
        (/\ a.type = "array"
         /\ a.len \in 2..4
         /\ \A j \in 1..a.len : a.buf[j].type \in {"number", "nan", "inf"})
        => /\ i = Len(c.args) => c.error = "none"
           /\ Len(c.pushes[i]) = a.len
           /\ \A j \in 1..a.len : c.pushes[i][j] = [kind |-> "float", v |-> a.buf[j]]

\* A native was invoked with the vector [1, 1.5, 5, 7] as its second argument.
C21_FourVectorInvoked ==
    /\ ret.op = "InvokeNative"
    /\ ret.call.invoked
    /\ Len(ret.call.args) = 2
    /\ ret.call.args[2] = Array(<<Number(1, 0), Number(3, -1), Number(5, 0), Number(7, 0)>>)
    /\ Len(ret.call.pushes[2]) = 4

\* C22: for an array whose length is not 2, 3 or 4 (0, 1 and 5 included)
\* PushArgument raises 'arrays should be vectors (wrong number of values)' and
\* appends nothing.
C22_WrongLengthRejected ==
    \A c \in NativeCalls : \A i \in 1..Len(c.args) :
        (c.args[i].type = "array" /\ c.args[i].len \notin 2..4)
        => /\ i = Len(c.args)
           /\ c.error = "arrays should be vectors (wrong number of values)"
           /\ c.pushes[i] = <<>>
           /\ ~c.invoked

\* An invocation whose second argument was an array of five numbers returned
\* with the error.
C22_FiveAndOneRejected ==
    /\ ret.op = "InvokeNative"
    /\ Len(ret.call.args) = 2
    /\ ret.call.args[2].type = "array"
    /\ ret.call.args[2].len = 5
    /\ ret.error = "arrays should be vectors (wrong number of values)"

\* C23 (as stated): for an array of 2, 3 or 4 elements one of which is no
\* number PushArgument raises 'invalid vector array value', and the native is
\* never invoked with such a component.
C23_NonNumberComponentRejected ==
    \A c \in NativeCalls : \A i \in 1..Len(c.args) :
        (/\ c.args[i].type = "array"
         /\ c.args[i].len \in 2..4
         /\ \E j \in 1..c.args[i].len : c.args[i].buf[j].type \notin {"number", "nan", "inf"})
        => /\ c.error = "invalid vector array value"
           /\ ~c.invoked

\* C24: for an object that is neither an array nor a view PushArgument appends
\* one 32-bit integer taken from __data when __data is a number; it raises
\* '__data field does not contain a number' and appends nothing when __data is
\* missing, cannot be read or is no number; it never returns without having
\* appended an argument.
C24_ObjectPushesDataOrRaises ==
    \A c \in NativeCalls : \A i \in 1..Len(c.args) :
        LET o == c.args[i]
            raised == i = Len(c.args) /\ c.error # "none"
            isNumber == o.buf # <<>> /\ o.buf[1].type \in {"number", "nan", "inf"}
        IN o.type = "object"
           => /\ isNumber
                 => /\ ~raised
                    /\ Len(c.pushes[i]) = 1
                    /\ c.pushes[i][1].kind = "int32"
                    /\ IsInt32(c.pushes[i][1].v)
                    /\ IsInt32(o.buf[1]) => c.pushes[i][1].v = o.buf[1]
                    /\ o.buf[1].type # "number" => c.pushes[i][1].v = Number(0, 0)
                    /\ o.buf[1] = Number(3, -1) => c.pushes[i][1].v = Number(1, 0)
                    /\ o.buf[1] = Number(1, 31) => c.pushes[i][1].v = Number(-1, 31)
                    /\ o.buf[1] = Number(1, 32) => c.pushes[i][1].v = Number(0, 0)
              /\ ~isNumber
                 => /\ raised
                    /\ c.error = "__data field does not contain a number"
                    /\ c.pushes[i] = <<>>
              /\ ~raised => Len(c.pushes[i]) = 1

\* A native was invoked with an object whose __data is NaN after an object
\* whose __data is 2^31.
C24_DataObjectsInvoked ==
    /\ ret.op = "InvokeNative"
    /\ ret.call.invoked
    /\ ret.call.args = <<Object(<<Number(1, 31)>>), Object(<<NaN>>)>>

\* C25: when PushArgument raises a marshaling error the native function is not
\* invoked, no result is processed, and the guest's call throws a script error
\* carrying the message.
C25_MarshalErrorThrownToGuest ==
    /\ \A t \in Threads :
          (stack[t] # <<>> /\ Top(t).op = "InvokeNative" /\ NativeCall(Top(t)).error # "none")
          => /\ ~NativeCall(Top(t)).invoked
             /\ NativeCall(Top(t)).results = <<>>
             /\ Top(t).res = [how |-> "throws", val |-> NoValue, text |-> NativeCall(Top(t)).error]
    /\ (ret.op = "InvokeNative" /\ ret.call.error # "none")
          => /\ ~ret.call.invoked
             /\ ret.call.results = <<>>
             /\ ret.out = NoValue
             /\ ret.error = ret.call.error

\* The guest's call threw for an object without __data, its second argument.
C25_ThrownForMissingData ==
    /\ ret.op = "InvokeNative"
    /\ Len(ret.call.args) = 2
    /\ ret.call.args[2] = Object(<<>>)
    /\ ret.error = "__data field does not contain a number"
    /\ ~ret.call.invoked

\* C26: a native invocation that reports n results returns undefined to the
\* guest when n = 0, the result itself when n = 1, and an array of the n
\* results in the order they were reported when n >= 2.
C26_ResultsShapedByCount ==
    (ret.op = "InvokeNative" /\ ret.call.invoked)
    => LET n == Len(ret.call.results) IN
       /\ ret.error = "none"
       /\ n = 0 => ret.out = Undefined
       /\ n = 1 => ret.out = ProcessResult(ret.call.results[1])
       /\ n >= 2 => /\ ret.out.type = "array"
                    /\ ret.out.len = n
                    /\ Len(ret.out.buf) = n
                    /\ \A i \in 1..n : ret.out.buf[i] = ProcessResult(ret.call.results[i])

\* An invocation that reported a vector, 7 and -1 returned an array of three.
C26_ThreeResultsReturned ==
    /\ ret.op = "InvokeNative"
    /\ Len(ret.call.results) = 3
    /\ ret.out.type = "array"
    /\ ret.out.buf[1].type = "array"
    /\ ret.out.buf[3] = Number(-1, 0)

\* C27: the event routine is handed a copy of the payload: what the guest's
\* function is given is exactly payloadSize bytes, equal to the caller's first
\* payloadSize bytes, and no write of the guest to it changes the caller's bytes.
C27_EventPayloadIsCopied ==
    [][\A t \in Threads :
        (stack[t] # <<>> /\ stack'[t] # <<>> /\ Len(stack'[t]) = Len(stack[t])
         /\ Top(t).op = "TriggerEvent" /\ stack'[t][Len(stack'[t])].call # <<>>)
        => LET c == Top(t).call
               d == stack'[t][Len(stack'[t])].call
               given == [i \in 1..d.view.len |-> d[d.view.buf][d.view.off + i]]
           IN IF c = <<>>
              THEN /\ Len(given) = d.payloadSize
                   /\ \A i \in 1..d.payloadSize : given[i] = d.eventPayload[i]
              ELSE /\ d.eventPayload = c.eventPayload
                   /\ d.payloadSize = c.payloadSize]_vars

\* The guest overwrote both bytes of what it was given for the payload 65, 255,
\* and the caller's bytes are as they were.
C27_GuestOverwroteItsCopy ==
    /\ stack["t1"] # <<>>
    /\ Top("t1").op = "TriggerEvent"
    /\ Top("t1").call # <<>>
    /\ Top("t1").call.eventPayload = <<65, 255>>
    /\ Top("t1").call.payloadSize = 2
    /\ Top("t1").call.inValueBuffer = <<66, 0>>

\* C31: when MakeFunctionReference cannot create the wrapper function, the entry
\* it allocated is freed at once, no weak callback is attached to it, the guest
\* is given nothing, and the entry never reaches the queue of deferred
\* releases; when the wrapper is created, one weak callback is attached to the
\* entry (and once it has run, none is attached again).
C31_FailedCreationDiscardsEntry ==
    /\ [][\A e \in Refs :
            (est[e] = "none" /\ est'[e] # "none")
            => \/ /\ est'[e] = "discarded"
                  /\ handle'[e] = "empty"
                  /\ ~reach'[e]
                  /\ g_cleanUpFuncRefs' = g_cleanUpFuncRefs
               \/ /\ est'[e] = "live"
                  /\ handle'[e] = "weak"
                  /\ reach'[e]
                  /\ g_cleanUpFuncRefs' = g_cleanUpFuncRefs]_vars
    /\ [](\A e \in Refs :
            est[e] = "discarded"
            => /\ handle[e] = "empty"
               /\ ~reach[e]
               /\ \A i \in 1..Len(g_cleanUpFuncRefs) : g_cleanUpFuncRefs[i] # e)
    /\ [][\A e \in Refs :
            /\ est[e] = "discarded" => est'[e] = "discarded"
            /\ (est[e] # "none" /\ handle[e] = "empty") => handle'[e] = "empty"]_vars

\* The first creation failed and its entry was discarded; the second succeeded,
\* and its entry is live with its weak callback.
C31_DiscardedBesideLive ==
    /\ est[1] = "discarded"
    /\ est[2] = "live"
    /\ handle[2] = "weak"
    /\ reach[2]

\* C32 (as stated): PushArgument classifies a value by the first kind that
\* matches, in the order number, boolean, string, null or undefined, external,
\* array, view, object, reject: null and undefined append the integer zero, an
\* array or a view is never handled as a __data object, and a value of no kind
\* raises a hard error that names the string form of the value.
C32_FirstMatchingKind ==
    \A c \in NativeCalls : \A i \in 1..Len(c.args) :
        LET a == c.args[i]
            raised == i = Len(c.args) /\ c.error # "none"
            kinds == {c.pushes[i][j].kind : j \in 1..Len(c.pushes[i])}
        IN /\ a.type \in {"number", "nan", "inf"}
              => ~raised /\ Len(c.pushes[i]) = 1 /\ kinds \subseteq {"int64", "double"}
           /\ a.type \in {"boolean", "booleanobject"}
              => ~raised /\ c.pushes[i] = <<[kind |-> "bool", v |-> a]>>
           /\ a.type = "string" => ~raised /\ Len(c.pushes[i]) = 1 /\ kinds = {"string"}
           /\ a.type \in {"null", "undefined"}
              => ~raised /\ c.pushes[i] = <<[kind |-> "int", v |-> Number(0, 0)]>>
           /\ a.type = "external" => ~raised /\ c.pushes[i] = <<[kind |-> "pointer", v |-> a]>>
           /\ a.type = "array"
              => /\ kinds \subseteq {"float"}
                 /\ raised => c.error \in {"arrays should be vectors (wrong number of values)",
                                           "invalid vector array value"}
           /\ a.type = "view" => ~raised /\ Len(c.pushes[i]) = 1 /\ kinds = {"buffer"}
           /\ a.type = "object"
              => /\ kinds \subseteq {"int32"}
                 /\ raised => c.error = "__data field does not contain a number"
           /\ a.type = "bigint"
              => raised /\ c.pushes[i] = <<>> /\ c.error = "invalid V8 value: 7"
           /\ a.type = "symbol"
              => raised /\ c.pushes[i] = <<>> /\ c.error = "invalid V8 value: Symbol()"

\* C33 (as stated): the routine table and the string arena of a runtime are
\* read or written only while the acting thread holds an Environment Scope of
\* that runtime: in routine registration, in the slot checks of the dispatch
\* operations, in string acquisition and in Destroy.  (Of these the writes are
\* steps of the model: a step that changes the table or the arena of r starts
\* in a state where a thread has an Environment Scope of r on its stack.)
C33_TableAndArenaOnlyInsideScope ==
    [][\A r \in Runtimes :
        (routine'[r] # routine[r] \/ m_stringValues'[r] # m_stringValues[r])
        => \E t \in Threads : \E i \in 1..Len(stack[t]) :
              IsEnvScope(stack[t][i].cls) /\ stack[t][i].rt = r]_vars

C35_NodeFrameEffects ==
    [][\A t \in Threads :
        /\ (Len(stack'[t]) = Len(stack[t]) + 1 /\ stack'[t][Len(stack'[t])].op = "NodeScope")
           => LET f == stack'[t][Len(stack'[t])]
                  light == f.cls \in {"Noop", "LiteNoRuntime"}
              IN /\ f.cls \in {"Noop", "LiteNoRuntime", "Lite"}
                 /\ (f.rt # NoRuntime /\ g_currentV8Runtime[t] = f.rt) => f.cls = "Noop"
                 /\ f.rt = NoRuntime => f.cls = "LiteNoRuntime"
                 /\ (f.rt # NoRuntime /\ g_currentV8Runtime[t] # f.rt /\ lockOwner # t)
                    => f.cls = "Lite"
                 /\ f.cls = "Noop" => g_currentV8Runtime[t] = f.rt
                 /\ f.cls = "LiteNoRuntime" => (f.rt = NoRuntime \/ lockOwner = t)
                 /\ light => g_currentV8Runtime'[t] = g_currentV8Runtime[t]
                 /\ ~light => g_currentV8Runtime'[t] = f.rt /\ f.last = g_currentV8Runtime[t]
        /\ (stack[t] # <<>> /\ Len(stack'[t]) = Len(stack[t]) - 1 /\ Top(t).op = "NodeScope")
           => IF Top(t).cls \in {"Noop", "LiteNoRuntime"}
              THEN /\ g_currentV8Runtime'[t] = g_currentV8Runtime[t]
                   /\ Top(t).ph = "run"
                   /\ ~Top(t).did
              ELSE /\ g_currentV8Runtime'[t] = Top(t).last
                   /\ Top(t).ph = "exit"
        /\ (stack[t] # <<>> /\ Len(stack'[t]) = Len(stack[t]) /\ Top(t).op = "NodeScope"
            /\ stack'[t][Len(stack'[t])].ph # Top(t).ph)
           => /\ Top(t).cls = "Lite"
              /\ Top(t).ph = "run"
              /\ g_currentV8Runtime'[t] = g_currentV8Runtime[t]]_vars

\* Inside a dispatch of r1 on t1 the handler was entered for r2, which made r2
\* current, and inside that for r2 again, which made a frame that changes nothing.
C35_NoopInsideLite ==
    /\ Len(stack["t1"]) = 3
    /\ stack["t1"][2].op = "NodeScope"
    /\ stack["t1"][2].cls = "Lite"
    /\ stack["t1"][2].rt = "r2"
    /\ stack["t1"][2].last = "r1"
    /\ stack["t1"][3].op = "NodeScope"
    /\ stack["t1"][3].cls = "Noop"
    /\ g_currentV8Runtime["t1"] = "r2"

C36_ViewRangeInsideStore ==
    \A c \in NativeCalls : \A i \in 1..Len(c.args) :
        c.args[i].type = "view"
        => /\ Len(c.pushes[i]) = 1
           /\ c.pushes[i][1].kind = "buffer"
           /\ c.pushes[i][1].v.buf = c.args[i].buf
           /\ c.pushes[i][1].v.off = c.args[i].off
           /\ c.pushes[i][1].v.len = c.args[i].len
           /\ c.pushes[i][1].v.off + c.pushes[i][1].v.len <= Len(c.args[i].buf)

\* C37 (as stated): whenever guest code runs, or a function of the bridge that
\* reads the thread's current runtime (the trace functions, invokeNativeByHash),
\* the current runtime is set and is the runtime that owns the guest context
\* that is running: for guest code started by every dispatch operation, by
\* EmitWarning (the warning sink) and by script loading.
C37_CurrentRuntimeOwnsGuestCode ==
    \A t \in Threads :
        (/\ stack[t] # <<>>
         /\ Top(t).ph = "run"
         /\ Top(t).op \in DispatchOps \cup {"EmitWarning", "RunFile", "InvokeNative"}
         /\ Top(t).rt \in Runtimes)
        => g_currentV8Runtime[t] = Top(t).rt

\* C39 (as stated): Citizen.pointerValueFloatInitialized(v) initializes the
\* field with the 32-bit pattern of v converted to single precision (so that
\* arguments of different single-precision values give different initial
\* values), and Citizen.pointerValueIntInitialized(v) initializes it with the
\* integer value of v.
C39_PointerFieldInitialValue ==
    ret.op = "GetPointerField"
    => /\ ret.call.field = "PointerValueFloat" => ret.out = FloatPattern(ret.call.arg)
       /\ ret.call.field = "PointerValueInteger"
          => /\ ret.out.type = "number"
             /\ ret.out.n = 0 \/ ret.out.p >= 0
             /\ ret.call.arg.p >= 0 => ret.out = ret.call.arg
             /\ ret.call.arg = Number(-7, -1) => ret.out = Number(-3, 0)
             /\ ret.call.arg = Number(5, -3) => ret.out = Number(0, 0)

====
